---- MODULE Spec2Model ----
(***************************************************************************)
(* MapArt-Bot: a pool of worker processes (MapArtBot.mainLoop) building    *)
(* one map art against a shared SQLite ledger (DatabaseManager), driven by *)
(* a control panel (start / pause / continue / clear) and stopped by       *)
(* SIGINT (MapArtBot.shutdown).                                            *)
(*                                                                         *)
(* Granularity: one step per awaited call.  A step is the awaited          *)
(* statement taking effect on the ledger together with the synchronous     *)
(* code that follows it up to the next await.  Statements of different     *)
(* processes interleave freely; SQLite serialises single statements only.  *)
(***************************************************************************)
EXTENDS Integers, Sequences, FiniteSets, TLC

-----------------------------------------------------------------------------
(* Bounds.  The program fixes the grid at 128 x 128 and reads the strip    *)
(* width from its configuration; the model scales them down.               *)

GridW == 1
GridH == 2
width == 1
MaxStarts == 1
MaxOps == 4
MaxCount == 2

\* the usernames of config/bots.json, and the strip widths given to startNewMapArt
Workers == {"bot1", "bot2", "bot3"}
Widths == 1 .. (GridH + 1)
Pair == {"bot1", "bot2"}
Solo == {"bot1"}

\* JavaScript null: a strip index, a width; a NULL assigned_to; the absent project row
Null == 0 - 1
NoUser == "NULL"
NoRow == [id |-> 0]

Xs == 0 .. (GridW - 1)
Zs == 0 .. (GridH - 1)
Cells == Xs \X Zs

-----------------------------------------------------------------------------
VARIABLES
    project,         \* table project: NoRow or the row with id = 1
    blocks,          \* table blocks: (x, z) -> is_placed, for the rows that exist
    strips,          \* table strips: strip_index -> row, for the rows that exist
    pc,              \* per worker: the call mainLoop is awaiting
    state,           \* MapArtBot.state
    cur,             \* MapArtBot.currentStripIndex
    shouldRun,       \* MapArtBot.shouldRun
    alive,           \* the worker process exists
    isPaused,        \* StripPlacer.isPaused
    isStopped,       \* StripPlacer.isStopped
    sel,             \* claimStrip: strip_index selected by the first statement
    pw,              \* getPlacementsForStrip: project.strip_width as read
    req,             \* mainLoop (restocking): the required count passed to restock
    inv,             \* items held by the bot
    batches,         \* buildCurrentStrip: the batches still to do in this pass
    pending,         \* shutdown: strip whose un-awaited releaseStrip is in flight
    cmd,             \* control panel: position inside startNewMapArt / clearProject
    nStarts,         \* number of start / clear commands issued so far
    got,             \* history: per strip, the usernames claimStrip returned it to
                     \*  since the strip was last released or deleted
    last             \* history: the last ledger operation of the sequential run

ledger  == <<project, blocks, strips>>
wvars   == <<pc, state, cur, shouldRun, alive, isPaused, isStopped, sel, pw, req,
             inv, batches, pending>>
cvars   == <<cmd, nStarts, last, got>>
vars    == <<project, blocks, strips, pc, state, cur, shouldRun, alive, isPaused,
             isStopped, sel, pw, req, inv, batches, pending, cmd, nStarts, got, last>>

-----------------------------------------------------------------------------
(* The ledger: DatabaseManager.  Each operator is one SQL statement.       *)

EmptyTable == [k \in {} |-> 0]

Min(S) == CHOOSE m \in S : \A n \in S : m <= n

\* TotalStrips with Math.floor in place of Math.ceil
TotalStripsFloor(w) == GridH \div w

\* Math.ceil(128 / stripWidth)
TotalStrips(w) == (GridH + w - 1) \div w

ProjectRow(w) ==
    [id |-> 1, is_active |-> 1, is_paused |-> 0, strip_width |-> w, total_strips |-> TotalStrips(w)]

\* INSERT INTO strips (strip_index) VALUES (?): the column defaults
NewStrip == [status |-> "pending", assigned_to |-> NoUser, assigned_at |-> "NULL"]

\* SELECT strip_index FROM strips WHERE status = 'pending' ORDER BY strip_index ASC LIMIT 1
PendingStrips(s) == {i \in DOMAIN s : s[i].status = "pending"}
Max(S) == CHOOSE m \in S : \A n \in S : m >= n
\* SelectPending with ORDER BY strip_index DESC
SelectPendingDesc(s) == IF PendingStrips(s) = {} THEN Null ELSE Max(PendingStrips(s))
SelectPending(s) == IF PendingStrips(s) = {} THEN Null ELSE Min(PendingStrips(s))

\* CondUpdate with a slip that drops "AND status = 'pending'"
CondUpdateNoGuard(s, u, i) ==
    IF i \in DOMAIN s
    THEN [s EXCEPT ![i] = [status |-> "assigned", assigned_to |-> u, assigned_at |-> "ts"]]
    ELSE s

\* UPDATE strips SET status = 'assigned', assigned_to = ?, assigned_at = CURRENT_TIMESTAMP
\*  WHERE strip_index = ? AND status = 'pending'
CondUpdate(s, u, i) ==
    IF i \in DOMAIN s /\ s[i].status = "pending"
    THEN [s EXCEPT ![i] = [status |-> "assigned", assigned_to |-> u, assigned_at |-> "ts"]]
    ELSE s

\* SELECT assigned_to ...; return final.assigned_to === botUsername ? strip_index : null
\* (only evaluated when the row exists; a missing row makes final undefined)
ClaimResult(s, u, i) == IF s[i].assigned_to = u THEN i ELSE Null

\* ReleaseStrip that clears the holder and leaves the status as it is
ReleaseStripKeepStatus(s, i) ==
    IF i \in DOMAIN s
    THEN [s EXCEPT ![i] = [status |-> @.status, assigned_to |-> NoUser, assigned_at |-> "NULL"]]
    ELSE s

\* ReleaseStrip with "AND status = 'assigned'" added to its WHERE
ReleaseStripGuarded(s, i) ==
    IF i \in DOMAIN s /\ s[i].status = "assigned" THEN [s EXCEPT ![i] = NewStrip] ELSE s

\* UPDATE strips SET status = 'pending', assigned_to = NULL, assigned_at = NULL WHERE strip_index = ?
ReleaseStrip(s, i) ==
    IF i \in DOMAIN s THEN [s EXCEPT ![i] = NewStrip] ELSE s

\* CompleteStrip that leaves the row's status as it is
CompleteStripKeepsStatus(s, i) == s

\* UPDATE strips SET status = 'completed' WHERE strip_index = ?
CompleteStrip(s, i) ==
    IF i \in DOMAIN s THEN [s EXCEPT ![i].status = "completed"] ELSE s

\* UpdateBlockPlaced with SET is_placed = 1 - is_placed
UpdateBlockToggle(b, c) ==
    IF c \in DOMAIN b THEN [b EXCEPT ![c] = 1 - @] ELSE b

\* UpdateBlockPlaced with SET is_placed = (x = ? AND z = ?) and no WHERE
UpdateBlockOnly(b, c) == [d \in DOMAIN b |-> IF d = c THEN 1 ELSE 0]

\* UPDATE blocks SET is_placed = 1 WHERE x = ? AND z = ?
UpdateBlockPlaced(b, c) ==
    IF c \in DOMAIN b THEN [b EXCEPT ![c] = 1] ELSE b

\* SELECT ... FROM blocks WHERE z >= startZ AND z < endZ AND is_placed = 0
\*  with startZ = stripIndex * strip_width, endZ = min(startZ + strip_width, 128)
StartZ(i, w) == i * w
EndZ(i, w) == IF StartZ(i, w) + w < GridH THEN StartZ(i, w) + w ELSE GridH
\* Placements with z <= endZ
PlacementsInclusive(b, i, w) ==
    {c \in DOMAIN b : c[2] >= StartZ(i, w) /\ c[2] <= EndZ(i, w) /\ b[c] = 0}

Placements(b, i, w) ==
    {c \in DOMAIN b : c[2] >= StartZ(i, w) /\ c[2] < EndZ(i, w) /\ b[c] = 0}

\* getCompletionStats: the COUNT(*) sub-selects
CountStatus(s, st) == Cardinality({i \in DOMAIN s : s[i].status = st})
PlacedBlocks(b) == Cardinality({c \in DOMAIN b : b[c] = 1})
Stats(p, b, s) ==
    IF p = NoRow THEN [project |-> NoRow]
    ELSE [project |-> p,
          placed_blocks |-> PlacedBlocks(b),
          total_strips |-> p.total_strips,
          pending_strips |-> CountStatus(s, "pending"),
          assigned_strips |-> CountStatus(s, "assigned"),
          completed_strips |-> CountStatus(s, "completed")]

-----------------------------------------------------------------------------
(* StripPlacer._groupIntoFourRowBatches: rows are the distinct x values in *)
(* ascending order, four rows to a batch, each row's cells ascending by z. *)

RowsPerBatch == 4

\* Object.keys(rows): the distinct x values of the placements
RowKeys(P) == {c[1] : c \in P}

\* Object.keys(rows).sort((a, b) => a - b), and the same keys in descending order
RECURSIVE SortedRowKeysDesc(_)
SortedRowKeysDesc(K) ==
    IF K = {} THEN << >>
    ELSE LET x == CHOOSE a \in K : \A b \in K : b <= a
         IN  <<x>> \o SortedRowKeysDesc(K \ {x})

RECURSIVE SortedRowKeys(_)
SortedRowKeys(K) ==
    IF K = {} THEN << >>
    ELSE LET x == CHOOSE a \in K : \A b \in K : a <= b
         IN  <<x>> \o SortedRowKeys(K \ {x})

CellBefore(a, b) == a[1] < b[1] \/ (a[1] = b[1] /\ a[2] < b[2])

\* rows[x].sort((a, b) => a.z - b.z), for the cells S of one row
RECURSIVE SortCells(_)
SortCells(S) ==
    IF S = {} THEN << >>
    ELSE LET c == CHOOSE a \in S : \A b \in S \ {a} : CellBefore(a, b)
         IN  <<c>> \o SortCells(S \ {c})

\* the inner loop: for (let j = 0; j < 4 && i + j < sortedRowKeys.length; j++)
\* batch.push(...row), with i and j counted from 0
RECURSIVE BatchRows(_, _, _, _)
BatchRows(P, keys, i, j) ==
    IF j < RowsPerBatch /\ i + j < Len(keys)
    THEN SortCells({c \in P : c[1] = keys[i + j + 1]}) \o BatchRows(P, keys, i, j + 1)
    ELSE << >>

\* the outer loop: for (let i = 0; i < sortedRowKeys.length; i += 4)
RECURSIVE BatchesFrom(_, _, _)
BatchesFrom(P, keys, i) ==
    IF i < Len(keys)
    THEN <<BatchRows(P, keys, i, 0)>> \o BatchesFrom(P, keys, i + RowsPerBatch)
    ELSE << >>

GroupIntoFourRowBatches(P) == BatchesFrom(P, SortedRowKeys(RowKeys(P)), 0)

-----------------------------------------------------------------------------
(* MapArtBot.mainLoop, one action per awaited call.                        *)

\* while (this.shouldRun) { await this.bot.waitForTicks(20); ...
LoopTop(w) == IF shouldRun[w] THEN "tick" ELSE "done"

\* await this.bot.waitForTicks(200 * (totalBots - botIndex)); the wait needs a
\* connected bot: disconnect() removes every listener of the bot, the tick
\* listener of waitForTicks included
StartDelay(w) ==
    /\ alive[w] /\ pc[w] = "start_delay" /\ shouldRun[w]
    /\ pc' = [pc EXCEPT ![w] = LoopTop(w)]
    /\ UNCHANGED <<ledger, state, cur, shouldRun, alive, isPaused, isStopped, sel, pw,
                   req, inv, batches, pending, cvars>>

\* await this.bot.waitForTicks(20), then getProjectState is called
Tick(w) ==
    /\ alive[w] /\ pc[w] = "tick" /\ shouldRun[w]
    /\ pc' = [pc EXCEPT ![w] = "get_project"]
    /\ UNCHANGED <<ledger, state, cur, shouldRun, alive, isPaused, isStopped, sel, pw,
                   req, inv, batches, pending, cvars>>

\* ProjectHalted without its is_paused test
ProjectHaltedNoPause(p) == p = NoRow \/ p.is_active = 0

\* !projectState || !projectState.is_active || projectState.is_paused
ProjectHalted(p) == p = NoRow \/ p.is_active = 0 \/ p.is_paused = 1

\* GetProject without this.stripPlacer.continue() when a held strip is resumed
GetProjectNoContinue(w) ==
    /\ alive[w] /\ pc[w] = "get_project"
    /\ IF ProjectHalted(project)
       THEN /\ state' = [state EXCEPT ![w] = "IDLE"]
            /\ isPaused' = [isPaused EXCEPT ![w] = IF state[w] # "IDLE" THEN TRUE ELSE @]
            /\ pc' = [pc EXCEPT ![w] = LoopTop(w)]
       ELSE LET resumed == state[w] = "IDLE" /\ cur[w] # Null
                st == IF resumed THEN "BUILDING" ELSE state[w]
            IN  /\ isPaused' = isPaused
                /\ IF cur[w] = Null
                   THEN /\ state' = [state EXCEPT ![w] = "CLAIMING"]
                        /\ pc' = [pc EXCEPT ![w] = "claim_select"]
                   ELSE /\ state' = [state EXCEPT ![w] = st]
                        /\ pc' = [pc EXCEPT ![w] =
                                    IF st = "BUILDING" THEN "b_req_p"
                                    ELSE IF st = "RESTOCKING" THEN "r_req_p"
                                    ELSE LoopTop(w)]
    /\ UNCHANGED <<ledger, cur, shouldRun, alive, isStopped, sel, pw, req, inv, batches,
                   pending, cvars>>

\* const projectState = await this.db.getProjectState(); and the dispatch that follows
GetProject(w) ==
    /\ alive[w] /\ pc[w] = "get_project"
    /\ IF ProjectHalted(project)
       THEN /\ state' = [state EXCEPT ![w] = "IDLE"]
            /\ isPaused' = [isPaused EXCEPT ![w] = IF state[w] # "IDLE" THEN TRUE ELSE @]
            /\ pc' = [pc EXCEPT ![w] = LoopTop(w)]
       ELSE LET resumed == state[w] = "IDLE" /\ cur[w] # Null
                st == IF resumed THEN "BUILDING" ELSE state[w]
            IN  /\ isPaused' = [isPaused EXCEPT ![w] = IF resumed THEN FALSE ELSE @]
                /\ IF cur[w] = Null
                   THEN /\ state' = [state EXCEPT ![w] = "CLAIMING"]
                        /\ pc' = [pc EXCEPT ![w] = "claim_select"]
                   ELSE /\ state' = [state EXCEPT ![w] = st]
                        /\ pc' = [pc EXCEPT ![w] =
                                    IF st = "BUILDING" THEN "b_req_p"
                                    ELSE IF st = "RESTOCKING" THEN "r_req_p"
                                    ELSE LoopTop(w)]
    /\ UNCHANGED <<ledger, cur, shouldRun, alive, isStopped, sel, pw, req, inv, batches,
                   pending, cvars>>

\* claimStrip, first statement: no pending row returns null, and mainLoop calls
\* getCompletionStats
ClaimStrip_select(w) ==
    /\ alive[w] /\ pc[w] = "claim_select"
    /\ LET r == SelectPending(strips)
       IN  IF r = Null
           THEN /\ pc' = [pc EXCEPT ![w] = "stats_p"]
                /\ sel' = sel
           ELSE /\ pc' = [pc EXCEPT ![w] = "claim_update"]
                /\ sel' = [sel EXCEPT ![w] = r]
    /\ UNCHANGED <<ledger, state, cur, shouldRun, alive, isPaused, isStopped, pw, req,
                   inv, batches, pending, cvars>>

\* claimStrip, second statement: the conditional UPDATE
ClaimStrip_update(w) ==
    /\ alive[w] /\ pc[w] = "claim_update"
    /\ strips' = CondUpdate(strips, w, sel[w])
    /\ pc' = [pc EXCEPT ![w] = "claim_verify"]
    /\ UNCHANGED <<project, blocks, state, cur, shouldRun, alive, isPaused, isStopped,
                   sel, pw, req, inv, batches, pending, cvars>>

\* claimStrip, third statement and its return value, then mainLoop lines 139-156;
\* final is undefined when the row is gone, and final.assigned_to throws
ClaimStrip_verify(w) ==
    /\ alive[w] /\ pc[w] = "claim_verify"
    /\ sel' = [sel EXCEPT ![w] = Null]
    /\ IF sel[w] \notin DOMAIN strips
       THEN /\ pc' = [pc EXCEPT ![w] = "crashed"]
            /\ UNCHANGED <<state, cur, isPaused>>
       ELSE LET r == ClaimResult(strips, w, sel[w])
            IN  IF r # Null
                THEN /\ cur' = [cur EXCEPT ![w] = r]
                     /\ state' = [state EXCEPT ![w] = "BUILDING"]
                     /\ isPaused' = [isPaused EXCEPT ![w] = FALSE]
                     /\ pc' = [pc EXCEPT ![w] = LoopTop(w)]
                ELSE /\ pc' = [pc EXCEPT ![w] = "stats_p"]
                     /\ UNCHANGED <<state, cur, isPaused>>
    /\ UNCHANGED <<ledger, shouldRun, alive, isStopped, pw, req, inv, batches, pending,
                   cmd, nStarts, last>>
    /\ got' = IF sel[w] \in DOMAIN strips /\ ClaimResult(strips, w, sel[w]) # Null
              THEN [got EXCEPT ![sel[w]] = @ \cup {w}] ELSE got

\* getCompletionStats, first statement: without a project row it returns
\* { project: null }, whose pending_strips is undefined and not === 0
Stats_project(w) ==
    /\ alive[w] /\ pc[w] = "stats_p"
    /\ pc' = [pc EXCEPT ![w] = IF project = NoRow THEN LoopTop(w) ELSE "stats_c"]
    /\ UNCHANGED <<ledger, state, cur, shouldRun, alive, isPaused, isStopped, sel, pw,
                   req, inv, batches, pending, cvars>>

\* Stats_counts that goes IDLE on pending_strips === 0 alone
Stats_countsPendingOnly(w) ==
    /\ alive[w] /\ pc[w] = "stats_c"
    /\ state' = [state EXCEPT ![w] = IF CountStatus(strips, "pending") = 0 THEN "IDLE" ELSE @]
    /\ pc' = [pc EXCEPT ![w] = LoopTop(w)]
    /\ UNCHANGED <<ledger, cur, shouldRun, alive, isPaused, isStopped, sel, pw, req, inv,
                   batches, pending, cvars>>

\* getCompletionStats, the counts, then mainLoop lines 147-156
Stats_counts(w) ==
    /\ alive[w] /\ pc[w] = "stats_c"
    /\ state' = [state EXCEPT ![w] =
                    IF CountStatus(strips, "pending") = 0 /\ CountStatus(strips, "assigned") = 0
                    THEN "IDLE" ELSE @]
    /\ pc' = [pc EXCEPT ![w] = LoopTop(w)]
    /\ UNCHANGED <<ledger, cur, shouldRun, alive, isPaused, isStopped, sel, pw, req, inv,
                   batches, pending, cvars>>

-----------------------------------------------------------------------------
(* getPlacementsForStrip is two statements: the project row, then the      *)
(* block rows.  It is called at four places; After_* is the synchronous    *)
(* code that receives its result P at each of them.                        *)

\* the item names: the pool places one kind of carpet, _hasMaterials is also
\* checked over two
Carpet == "white_carpet"
Materials == {"white_carpet", "red_carpet"}

\* getRequiredMaterialsForStrip: item_id -> number of placements, and
\* bot.inventory.count per item
RequiredOf(P) == [m \in (IF P = {} THEN {} ELSE {Carpet}) |-> Cardinality(P)]
RequiredMaps == UNION {[S -> 1 .. MaxCount] : S \in SUBSET Materials}
InventoryCounts == [Materials -> 0 .. MaxCount]

\* _hasMaterials that is satisfied by one sufficient material
HasMaterialsOfAny(required, count) ==
    \E m \in DOMAIN required : count[m] >= required[m]

\* _hasMaterials: for (const itemName in required) { if (currentCount <
\* requiredCount) return false; } return true;
RECURSIVE HasMaterialsLoop(_, _, _)
HasMaterialsLoop(required, count, todo) ==
    IF todo = {} THEN TRUE
    ELSE LET itemName == CHOOSE m \in todo : TRUE
         IN  IF count[itemName] < required[itemName] THEN FALSE
             ELSE HasMaterialsLoop(required, count, todo \ {itemName})

HasMaterialsOf(required, count) == HasMaterialsLoop(required, count, DOMAIN required)

\* mainLoop lines 160-177, what the BUILDING branch does next
BuildingStep(required, count) ==
    IF DOMAIN required = {} THEN "completeStrip"
    ELSE IF ~HasMaterialsOf(required, count) THEN "RESTOCKING"
    ELSE "buildCurrentStrip"

\* _hasMaterials(required), for the single material of the pool
HasMaterials(w, n) == HasMaterialsOf([m \in {Carpet} |-> n], [m \in {Carpet} |-> inv[w]])

\* mainLoop lines 161-175: required = getRequiredMaterialsForStrip(currentStripIndex)
After_required(w, P) ==
    LET step == BuildingStep(RequiredOf(P), [m \in {Carpet} |-> inv[w]])
    IN
    IF step = "completeStrip"
    THEN /\ pc' = [pc EXCEPT ![w] = "complete"]
         /\ UNCHANGED <<state, isStopped, batches, req>>
    ELSE IF step = "RESTOCKING"
    THEN /\ state' = [state EXCEPT ![w] = "RESTOCKING"]
         /\ pc' = [pc EXCEPT ![w] = "r_req_p"]
         /\ UNCHANGED <<isStopped, batches, req>>
    ELSE /\ isStopped' = [isStopped EXCEPT ![w] = FALSE]
         /\ pc' = [pc EXCEPT ![w] = "bcs_get_p"]
         /\ UNCHANGED <<state, batches, req>>

\* buildCurrentStrip lines 1349-1358
After_placements(w, P) ==
    IF P = {}
    THEN /\ pc' = [pc EXCEPT ![w] = "complete"]
         /\ UNCHANGED <<state, isStopped, batches, req>>
    ELSE /\ batches' = [batches EXCEPT ![w] = GroupIntoFourRowBatches(P)]
         /\ pc' = [pc EXCEPT ![w] = "bcs_batch"]
         /\ UNCHANGED <<state, isStopped, req>>

\* buildCurrentStrip lines 1379-1380, then mainLoop lines 176-184
After_remaining(w, P) ==
    /\ pc' = [pc EXCEPT ![w] = IF P = {} THEN "complete" ELSE LoopTop(w)]
    /\ UNCHANGED <<state, isStopped, batches, req>>

\* mainLoop lines 188-189: restock(required) is called
After_restockRequired(w, P) ==
    /\ req' = [req EXCEPT ![w] = Cardinality(P)]
    /\ pc' = [pc EXCEPT ![w] = "restocking"]
    /\ UNCHANGED <<state, isStopped, batches>>

After(site, w, P) ==
    CASE site = "b_req" -> After_required(w, P)
      [] site = "bcs_get" -> After_placements(w, P)
      [] site = "bcs_fin" -> After_remaining(w, P)
      [] site = "r_req" -> After_restockRequired(w, P)

\* const project = await this.getProjectState(); if (!project) return [];
GetPlacements_project(site, w) ==
    /\ alive[w] /\ pc[w] = site \o "_p"
    /\ IF project = NoRow
       THEN /\ After(site, w, {})
            /\ pw' = pw
       ELSE /\ pc' = [pc EXCEPT ![w] = site \o "_b"]
            /\ pw' = [pw EXCEPT ![w] = project.strip_width]
            /\ UNCHANGED <<state, isStopped, batches, req>>
    /\ UNCHANGED <<ledger, cur, shouldRun, alive, isPaused, sel, inv, pending, cvars>>

\* return this.db.all(SELECT ... FROM blocks WHERE z >= ? AND z < ? AND is_placed = 0)
GetPlacements_blocks(site, w) ==
    /\ alive[w] /\ pc[w] = site \o "_b"
    /\ After(site, w, Placements(blocks, cur[w], pw[w]))
    /\ pw' = [pw EXCEPT ![w] = Null]
    /\ UNCHANGED <<ledger, cur, shouldRun, alive, isPaused, sel, inv, pending, cvars>>

Required_project(w) == GetPlacements_project("b_req", w)
Required_blocks(w) == GetPlacements_blocks("b_req", w)
Build_project(w) == GetPlacements_project("bcs_get", w)
Build_blocks(w) == GetPlacements_blocks("bcs_get", w)
Remaining_project(w) == GetPlacements_project("bcs_fin", w)
Remaining_blocks(w) == GetPlacements_blocks("bcs_fin", w)
RestockRequired_project(w) == GetPlacements_project("r_req", w)
RestockRequired_blocks(w) == GetPlacements_blocks("r_req", w)

\* await this.db.completeStrip(this.currentStripIndex); currentStripIndex = null;
\* state = "CLAIMING"
Complete(w) ==
    /\ alive[w] /\ pc[w] = "complete"
    /\ strips' = CompleteStrip(strips, cur[w])
    /\ cur' = [cur EXCEPT ![w] = Null]
    /\ state' = [state EXCEPT ![w] = "CLAIMING"]
    /\ pc' = [pc EXCEPT ![w] = LoopTop(w)]
    /\ UNCHANGED <<project, blocks, shouldRun, alive, isPaused, isStopped, sel, pw, req,
                   inv, batches, pending, cvars>>

-----------------------------------------------------------------------------
(* StripPlacer.buildCurrentStrip and placeBatchFromPosition.               *)

AfterBatch(rest) == IF rest = << >> THEN "bcs_fin_p" ELSE "bcs_batch"

\* buildCurrentStrip lines 1358-1375, the head of the batch loop: the pause wait,
\* the stop check, findSafeStandPosForBatch (decided by the world)
Batch_head(w) ==
    /\ alive[w] /\ pc[w] = "bcs_batch"
    /\ ~(isPaused[w] /\ ~isStopped[w])
    /\ IF isStopped[w]
       THEN /\ batches' = [batches EXCEPT ![w] = << >>]
            /\ pc' = [pc EXCEPT ![w] = LoopTop(w)]
       ELSE \E standPos \in BOOLEAN :
              IF standPos
              THEN /\ pc' = [pc EXCEPT ![w] = "bcs_goto"]
                   /\ batches' = batches
              ELSE /\ batches' = [batches EXCEPT ![w] = Tail(@)]
                   /\ pc' = [pc EXCEPT ![w] = AfterBatch(Tail(batches[w]))]
    /\ UNCHANGED <<ledger, state, cur, shouldRun, alive, isPaused, isStopped, sel, pw,
                   req, inv, pending, cvars>>

\* placeBatchFromPosition line 1286: await this.bot.pathfinder.goto(...), which
\* rejects when navigation fails; nothing catches it up to mainLoop
Batch_goto(w) ==
    /\ alive[w] /\ pc[w] = "bcs_goto"
    /\ \E ok \in BOOLEAN :
         IF ok
         THEN /\ pc' = [pc EXCEPT ![w] = "bcs_cell"]
              /\ batches' = batches
         ELSE /\ pc' = [pc EXCEPT ![w] = "crashed"]
              /\ batches' = [batches EXCEPT ![w] = << >>]
    /\ UNCHANGED <<ledger, state, cur, shouldRun, alive, isPaused, isStopped, sel, pw,
                   req, inv, pending, cvars>>

\* placeBatchFromPosition lines 1288-1292, before each cell: the pause wait and
\* the stop check; a stop returns to the batch loop of buildCurrentStrip
Cell_headStep(w) ==
    /\ alive[w] /\ pc[w] = "bcs_cell"
    /\ ~(isPaused[w] /\ ~isStopped[w])
    /\ IF isStopped[w]
       THEN /\ batches' = [batches EXCEPT ![w] = Tail(@)]
            /\ pc' = [pc EXCEPT ![w] = AfterBatch(Tail(batches[w]))]
       ELSE /\ pc' = [pc EXCEPT ![w] = "bcs_place"]
            /\ batches' = batches
    /\ UNCHANGED <<ledger, state, cur, shouldRun, alive, isPaused, isStopped, sel, pw,
                   req, inv, pending>>

Cell_head(w) == Cell_headStep(w) /\ UNCHANGED cvars

\* placeBatchFromPosition lines 1300-1341 for one cell: the block is already
\* right, or it is placed from the inventory, or three attempts fail and the
\* cell is skipped
Cell_place(w) ==
    /\ alive[w] /\ pc[w] = "bcs_place"
    /\ LET c == Head(Head(batches[w]))
           rest == Tail(Head(batches[w]))
       IN  /\ \E outcome \in {"present", "placed", "skipped"} :
                 /\ outcome = "placed" => inv[w] > 0
                 /\ inv' = [inv EXCEPT ![w] = IF outcome = "placed" THEN @ - 1 ELSE @]
                 /\ blocks' = IF outcome = "skipped" THEN blocks
                              ELSE UpdateBlockPlaced(blocks, c)
           /\ IF rest = << >>
              THEN /\ batches' = [batches EXCEPT ![w] = Tail(@)]
                   /\ pc' = [pc EXCEPT ![w] = AfterBatch(Tail(batches[w]))]
              ELSE /\ batches' = [batches EXCEPT ![w] = <<rest>> \o Tail(@)]
                   /\ pc' = [pc EXCEPT ![w] = "bcs_cell"]
    /\ UNCHANGED <<project, strips, state, cur, shouldRun, alive, isPaused, isStopped,
                   sel, pw, req, pending, cvars>>

-----------------------------------------------------------------------------
(* mainLoop lines 187-200 and MapArtBot.shutdown.                          *)

\* const success = await this.restocker.restock(required): the inventory is
\* discarded, then all of required is withdrawn (true), or less (false), or the
\* navigation of discardInventory rejects
Restock(w) ==
    /\ alive[w] /\ pc[w] = "restocking"
    /\ \E outcome \in {"true", "false", "throws"} :
         CASE outcome = "true" ->
                /\ inv' = [inv EXCEPT ![w] = req[w]]
                /\ state' = [state EXCEPT ![w] = "BUILDING"]
                /\ pc' = [pc EXCEPT ![w] = LoopTop(w)]
           [] outcome = "false" ->
                /\ req[w] > 0
                /\ \E n \in 0 .. (req[w] - 1) : inv' = [inv EXCEPT ![w] = n]
                /\ state' = state
                /\ pc' = [pc EXCEPT ![w] = "r_release"]
           [] outcome = "throws" ->
                /\ inv' = inv
                /\ state' = state
                /\ pc' = [pc EXCEPT ![w] = "crashed"]
    /\ req' = [req EXCEPT ![w] = 0]
    /\ UNCHANGED <<ledger, cur, shouldRun, alive, isPaused, isStopped, sel, pw, batches,
                   pending, cvars>>

\* Restock_release without this.currentStripIndex = null
Restock_releaseKeepsStrip(w) ==
    /\ alive[w] /\ pc[w] = "r_release"
    /\ strips' = ReleaseStrip(strips, cur[w])
    /\ state' = [state EXCEPT ![w] = "IDLE"]
    /\ pc' = [pc EXCEPT ![w] = "cooldown"]
    /\ UNCHANGED <<project, blocks, cur, shouldRun, alive, isPaused, isStopped, sel, pw,
                   req, inv, batches, pending, cmd, nStarts, last>>
    /\ got' = [i \in DOMAIN got |-> IF i = cur[w] THEN {} ELSE got[i]]

\* await this.db.releaseStrip(this.currentStripIndex); currentStripIndex = null;
\* state = "IDLE"; the five-minute wait begins
Restock_release(w) ==
    /\ alive[w] /\ pc[w] = "r_release"
    /\ strips' = ReleaseStrip(strips, cur[w])
    /\ cur' = [cur EXCEPT ![w] = Null]
    /\ state' = [state EXCEPT ![w] = "IDLE"]
    /\ pc' = [pc EXCEPT ![w] = "cooldown"]
    /\ UNCHANGED <<project, blocks, shouldRun, alive, isPaused, isStopped, sel, pw, req,
                   inv, batches, pending, cmd, nStarts, last>>
    /\ got' = [i \in DOMAIN got |-> IF i = cur[w] THEN {} ELSE got[i]]

\* await this.bot.waitForTicks(20 * 60 * 5)
Cooldown(w) ==
    /\ alive[w] /\ pc[w] = "cooldown" /\ shouldRun[w]
    /\ pc' = [pc EXCEPT ![w] = LoopTop(w)]
    /\ UNCHANGED <<ledger, state, cur, shouldRun, alive, isPaused, isStopped, sel, pw,
                   req, inv, batches, pending, cvars>>

\* shutdown(), run by the SIGINT handler of worker.js between two steps of
\* mainLoop: releaseStrip is called and not awaited
Shutdown(w) ==
    /\ alive[w] /\ shouldRun[w]
    /\ shouldRun' = [shouldRun EXCEPT ![w] = FALSE]
    /\ isStopped' = [isStopped EXCEPT ![w] = TRUE]
    /\ isPaused' = [isPaused EXCEPT ![w] = FALSE]
    /\ pending' = [pending EXCEPT ![w] = cur[w]]
    /\ UNCHANGED <<ledger, pc, state, cur, alive, sel, pw, req, inv, batches, cvars>>

\* the UPDATE of the releaseStrip that shutdown called reaches the ledger
Shutdown_release(w) ==
    /\ alive[w] /\ pending[w] # Null
    /\ strips' = ReleaseStrip(strips, pending[w])
    /\ pending' = [pending EXCEPT ![w] = Null]
    /\ UNCHANGED <<project, blocks, pc, state, cur, shouldRun, alive, isPaused,
                   isStopped, sel, pw, req, inv, batches, cmd, nStarts, last>>
    /\ got' = [i \in DOMAIN got |-> IF i = pending[w] THEN {} ELSE got[i]]

\* worker.js: setTimeout(() => process.exit(0), 2000); whatever the process has
\* in flight is dropped
Exit(w) ==
    /\ alive[w] /\ ~shouldRun[w]
    /\ alive' = [alive EXCEPT ![w] = FALSE]
    /\ UNCHANGED <<ledger, pc, state, cur, shouldRun, isPaused, isStopped, sel, pw, req,
                   inv, batches, pending, cvars>>

-----------------------------------------------------------------------------
(* The control panel (part_002) and run.js: start, clear, pause, continue. *)
(* The commands are async handlers of one process; pause and continue are  *)
(* single statements and may run while a start is still inserting rows.    *)

NumCells == GridW * GridH

\* for (let z = 0; z < 128; z++) for (let x = 0; x < 128; x++): the k-th cell inserted
CellAt(k) == <<k % GridW, k \div GridW>>

At(a) == [at |-> a, k |-> 0]

\* 'start <image>' : imageData is quantised, then startNewMapArt is called
\* with mapArtOffsets.width
StartCommand ==
    /\ cmd.at = "idle" /\ nStarts < MaxStarts
    /\ cmd' = At("s_del_strips")
    /\ nStarts' = nStarts + 1
    /\ UNCHANGED <<ledger, wvars, last, got>>

\* 'clear' : clearProject is called
ClearCommand ==
    /\ cmd.at = "idle" /\ nStarts < MaxStarts
    /\ cmd' = At("c_del_strips")
    /\ nStarts' = nStarts + 1
    /\ UNCHANGED <<ledger, wvars, last, got>>

\* clearProject: await this.db.exec('DELETE FROM strips;')
ClearProject_strips ==
    /\ cmd.at \in {"s_del_strips", "c_del_strips"}
    /\ strips' = EmptyTable
    /\ cmd' = At(IF cmd.at = "s_del_strips" THEN "s_del_blocks" ELSE "c_del_blocks")
    /\ UNCHANGED <<project, blocks, wvars, nStarts, last>>
    /\ got' = [i \in DOMAIN got |-> {}]

\* clearProject: await this.db.exec('DELETE FROM blocks;')
ClearProject_blocks ==
    /\ cmd.at \in {"s_del_blocks", "c_del_blocks"}
    /\ blocks' = EmptyTable
    /\ cmd' = At(IF cmd.at = "s_del_blocks" THEN "s_del_project" ELSE "c_del_project")
    /\ UNCHANGED <<project, strips, wvars, nStarts, last, got>>

\* clearProject: await this.db.exec('DELETE FROM project;')
ClearProject_project ==
    /\ cmd.at \in {"s_del_project", "c_del_project"}
    /\ project' = NoRow
    /\ cmd' = At(IF cmd.at = "s_del_project" THEN "s_ins_project" ELSE "idle")
    /\ UNCHANGED <<blocks, strips, wvars, nStarts, last, got>>

\* startNewMapArt: INSERT INTO project ... VALUES (1, ?, ?, 1, 0, ?, ?)
Start_project ==
    /\ cmd.at = "s_ins_project"
    /\ project' = ProjectRow(width)
    /\ cmd' = At("s_ins_blocks")
    /\ UNCHANGED <<blocks, strips, wvars, nStarts, last, got>>

\* INSERT INTO blocks (x, z, color_name, item_id, is_placed) VALUES (?, ?, ?, ?, 0)
InsertBlock(b, k) == b @@ (CellAt(k) :> 0)

\* INSERT INTO strips (strip_index) VALUES (?)
InsertStrip(s, i) == s @@ (i :> NewStrip)

\* startNewMapArt: one run of blockInsertStmt
Start_block ==
    /\ cmd.at = "s_ins_blocks"
    /\ blocks' = InsertBlock(blocks, cmd.k)
    /\ cmd' = IF cmd.k + 1 < NumCells THEN [cmd EXCEPT !.k = @ + 1] ELSE At("s_ins_strips")
    /\ UNCHANGED <<project, strips, wvars, nStarts, last, got>>

\* startNewMapArt: one run of stripInsertStmt
Start_strip ==
    /\ cmd.at = "s_ins_strips"
    /\ strips' = InsertStrip(strips, cmd.k)
    /\ cmd' = IF cmd.k + 1 < TotalStrips(width) THEN [cmd EXCEPT !.k = @ + 1] ELSE At("idle")
    /\ UNCHANGED <<project, blocks, wvars, nStarts, last, got>>

\* 'pause' : UPDATE project SET is_paused = 1 WHERE id = 1
SetPaused ==
    /\ project # NoRow /\ project.is_paused = 0
    /\ project' = [project EXCEPT !.is_paused = 1]
    /\ UNCHANGED <<blocks, strips, wvars>>

Pause == SetPaused /\ UNCHANGED cvars

\* 'continue' : needs an active, paused project; UPDATE project SET is_paused = 0
SetResumed ==
    /\ project # NoRow /\ project.is_active = 1 /\ project.is_paused = 1
    /\ project' = [project EXCEPT !.is_paused = 0]
    /\ UNCHANGED <<blocks, strips, wvars>>

Resume == SetResumed /\ UNCHANGED cvars

-----------------------------------------------------------------------------
(* Specifications.                                                         *)

InitWorkers ==
    /\ pc = [w \in Workers |-> "start_delay"]
    /\ state = [w \in Workers |-> "IDLE"]
    /\ cur = [w \in Workers |-> Null]
    /\ shouldRun = [w \in Workers |-> TRUE]
    /\ alive = [w \in Workers |-> TRUE]
    /\ isPaused = [w \in Workers |-> FALSE]
    /\ isStopped = [w \in Workers |-> FALSE]
    /\ sel = [w \in Workers |-> Null]
    /\ pw = [w \in Workers |-> Null]
    /\ req = [w \in Workers |-> 0]
    /\ inv = [w \in Workers |-> 0]
    /\ batches = [w \in Workers |-> << >>]
    /\ pending = [w \in Workers |-> Null]

InitPanel == cmd = At("idle") /\ nStarts = 0
NoOp == [op |-> "none", user |-> NoUser, idx |-> Null, ret |-> Null, n |-> 0,
         prePlaced |-> 0, preAssigned |-> 0, preStatus |-> "none", preHolder |-> NoUser,
         prevOp |-> "none", prevIdx |-> Null, prevStatus |-> "none", prevHolder |-> NoUser]
InitHist == got = [i \in 0 .. (GridH - 1) |-> {}] /\ last = NoOp

\* the ledger as the first 'start' leaves it, when launchBots forks the workers
Init ==
    /\ project = ProjectRow(width)
    /\ blocks = [c \in Cells |-> 0]
    /\ strips = [i \in 0 .. (TotalStrips(width) - 1) |-> NewStrip]
    /\ InitWorkers /\ InitPanel /\ InitHist

MainLoop(w) ==
    \/ StartDelay(w) \/ Tick(w) \/ GetProject(w)
    \/ ClaimStrip_select(w) \/ ClaimStrip_update(w) \/ ClaimStrip_verify(w)
    \/ Stats_project(w) \/ Stats_counts(w)
    \/ Required_project(w) \/ Required_blocks(w)
    \/ Build_project(w) \/ Build_blocks(w)
    \/ Batch_head(w) \/ Batch_goto(w) \/ Cell_head(w) \/ Cell_place(w)
    \/ Remaining_project(w) \/ Remaining_blocks(w)
    \/ Complete(w)
    \/ RestockRequired_project(w) \/ RestockRequired_blocks(w)
    \/ Restock(w) \/ Restock_release(w) \/ Cooldown(w)

Signal(w) == Shutdown(w) \/ Shutdown_release(w) \/ Exit(w)

StartNewMapArt ==
    \/ StartCommand \/ ClearCommand
    \/ ClearProject_strips \/ ClearProject_blocks \/ ClearProject_project
    \/ Start_project \/ Start_block \/ Start_strip

\* the pool of two workers under pause, continue and SIGINT
Next ==
    \/ \E w \in Pair : MainLoop(w) \/ Signal(w)
    \/ Pause \/ Resume

Spec == Init /\ [][Next]_vars

\* three workers, SIGINT reaching one of them
NextPool3 ==
    \/ \E w \in Workers : MainLoop(w)
    \/ Signal("bot1")

SpecPool3 == Init /\ [][NextPool3]_vars

\* two workers while the control panel starts or clears the project
NextStart ==
    \/ \E w \in Pair : MainLoop(w)
    \/ StartNewMapArt

SpecStart == Init /\ [][NextStart]_vars

\* one worker under every command of the control panel and SIGINT
NextSolo ==
    \/ \E w \in Solo : MainLoop(w) \/ Signal(w)
    \/ Pause \/ Resume
    \/ StartNewMapArt

SpecSolo == Init /\ [][NextSolo]_vars

\* a project whose cells are all placed and whose strips are all pending (the
\* workers that built it were stopped before completing their strips)
InitClaim ==
    /\ project = ProjectRow(width)
    /\ blocks = [c \in Cells |-> 1]
    /\ strips = [i \in 0 .. (TotalStrips(width) - 1) |-> NewStrip]
    /\ InitWorkers /\ InitPanel /\ InitHist

\* three workers claiming and completing, nothing released
NextClaim ==
    \E w \in Workers :
        \/ StartDelay(w) \/ Tick(w) \/ GetProject(w)
        \/ ClaimStrip_select(w) \/ ClaimStrip_update(w) \/ ClaimStrip_verify(w)
        \/ Stats_project(w) \/ Stats_counts(w)
        \/ Required_project(w) \/ Required_blocks(w)
        \/ Complete(w)

SpecClaim == InitClaim /\ [][NextClaim]_vars

-----------------------------------------------------------------------------
(* The ledger used by one caller at a time: every DatabaseManager method   *)
(* runs to its end before the next is called.  A method is the composition *)
(* of its statements.                                                      *)

RECURSIVE InsertBlocksFrom(_, _)
InsertBlocksFrom(b, k) ==
    IF k < NumCells THEN InsertBlocksFrom(InsertBlock(b, k), k + 1) ELSE b

RECURSIVE InsertStripsFrom(_, _, _)
InsertStripsFrom(s, i, n) ==
    IF i < n THEN InsertStripsFrom(InsertStrip(s, i), i + 1, n) ELSE s

\* claimStrip(botUsername) run without interleaving: [strips, ret]
ClaimStrip(s, u) ==
    LET i == SelectPending(s)
    IN  IF i = Null THEN [strips |-> s, ret |-> Null]
        ELSE LET s2 == CondUpdate(s, u, i)
             IN  [strips |-> s2, ret |-> ClaimResult(s2, u, i)]

\* the record of a call: its name, arguments and return value, what the ledger
\* held before it (for a strip method, the row it names), and the call before it
Did(o, u, i, r) ==
    LET onStrip == o \in {"releaseStrip", "completeStrip"} /\ i \in DOMAIN strips
    IN  [op |-> o, user |-> u, idx |-> i, ret |-> r, n |-> last.n + 1,
         prePlaced |-> PlacedBlocks(blocks), preAssigned |-> CountStatus(strips, "assigned"),
         preStatus |-> IF onStrip THEN strips[i].status ELSE "none",
         preHolder |-> IF onStrip THEN strips[i].assigned_to ELSE NoUser,
         prevOp |-> last.op, prevIdx |-> last.idx,
         prevStatus |-> last.preStatus, prevHolder |-> last.preHolder]

Seq_startNewMapArt ==
    /\ last.n < MaxOps
    /\ \E w \in Widths :
         /\ project' = ProjectRow(w)
         /\ blocks' = InsertBlocksFrom(EmptyTable, 0)
         /\ strips' = InsertStripsFrom(EmptyTable, 0, TotalStrips(w))
         /\ last' = Did("startNewMapArt", NoUser, w, Null)
    /\ UNCHANGED <<wvars, cmd, nStarts, got>>

Seq_clearProject ==
    /\ last.n < MaxOps
    /\ project' = NoRow /\ blocks' = EmptyTable /\ strips' = EmptyTable
    /\ last' = Did("clearProject", NoUser, Null, Null)
    /\ UNCHANGED <<wvars, cmd, nStarts, got>>

\* UPDATE project SET is_paused = ? WHERE id = 1
Seq_setPaused ==
    /\ last.n < MaxOps
    /\ \E b \in {0, 1} :
         /\ project' = IF project = NoRow THEN project ELSE [project EXCEPT !.is_paused = b]
         /\ last' = Did("setPaused", NoUser, b, Null)
    /\ UNCHANGED <<blocks, strips, wvars, cmd, nStarts, got>>

Seq_claimStrip ==
    /\ last.n < MaxOps
    /\ \E u \in Pair :
         LET r == ClaimStrip(strips, u)
         IN  /\ strips' = r.strips
             /\ last' = Did("claimStrip", u, Null, r.ret)
    /\ UNCHANGED <<project, blocks, wvars, cmd, nStarts, got>>

Seq_releaseStrip ==
    /\ last.n < MaxOps
    /\ \E i \in DOMAIN strips :
         /\ strips' = ReleaseStrip(strips, i)
         /\ last' = Did("releaseStrip", NoUser, i, Null)
    /\ UNCHANGED <<project, blocks, wvars, cmd, nStarts, got>>

Seq_completeStrip ==
    /\ last.n < MaxOps
    /\ \E i \in DOMAIN strips :
         /\ strips' = CompleteStrip(strips, i)
         /\ last' = Did("completeStrip", NoUser, i, Null)
    /\ UNCHANGED <<project, blocks, wvars, cmd, nStarts, got>>

Seq_updateBlockPlaced ==
    /\ last.n < MaxOps
    /\ \E c \in Cells :
         /\ blocks' = UpdateBlockPlaced(blocks, c)
         /\ last' = Did("updateBlockPlaced", NoUser, c[2] * GridW + c[1], Null)
    /\ UNCHANGED <<project, strips, wvars, cmd, nStarts, got>>

\* the tables as init() creates them, empty
InitLedger ==
    /\ project = NoRow /\ blocks = EmptyTable /\ strips = EmptyTable
    /\ InitWorkers /\ InitPanel /\ InitHist

\* the BUILDING branch of mainLoop for one requirement and one inventory
InitMaterials ==
    /\ project = NoRow /\ blocks = EmptyTable /\ strips = EmptyTable
    /\ InitWorkers /\ InitPanel
    /\ got = [i \in 0 .. (GridH - 1) |-> {}]
    /\ last \in {[op |-> "input", required |-> r, count |-> c, has |-> FALSE, ret |-> "none"] :
                     r \in RequiredMaps, c \in InventoryCounts}

Building_dispatch ==
    /\ last.op = "input"
    /\ last' = [last EXCEPT !.op = "BUILDING",
                            !.has = HasMaterialsOf(last.required, last.count),
                            !.ret = BuildingStep(last.required, last.count)]
    /\ UNCHANGED <<ledger, wvars, cmd, nStarts, got>>

NextMaterials == Building_dispatch

SpecMaterials == InitMaterials /\ [][NextMaterials]_vars

NextLedger ==
    \/ Seq_startNewMapArt \/ Seq_clearProject \/ Seq_setPaused
    \/ Seq_claimStrip \/ Seq_releaseStrip \/ Seq_completeStrip
    \/ Seq_updateBlockPlaced

SpecLedger == InitLedger /\ [][NextLedger]_vars

-----------------------------------------------------------------------------
(* Properties                                                              *)

\* a worker the pool still counts: its process runs and it was not told to stop
Live(w) == alive[w] /\ shouldRun[w]

\* shutdown() has run, mainLoop has left its loop, no release is outstanding
WorkerStopped(w) == ~shouldRun[w] /\ pc[w] = "done" /\ pending[w] = Null

AssignedTo(w) == {i \in DOMAIN strips : strips[i].status = "assigned" /\ strips[i].assigned_to = w}

\* C1: when the three statements of claimStrip run interleaved for distinct
\* usernames and nothing is released, no strip index is returned non-null to
\* more than one username.
C1_NoDoubleClaim == \A i \in DOMAIN got : Cardinality(got[i]) <= 1

\* one worker got strip i while another, having selected the same strip and
\* run its UPDATE, is about to read the row back
C1_Witness ==
    \E i \in DOMAIN got : \E w, v \in Workers :
        /\ w # v
        /\ got[i] = {w}
        /\ pc[v] = "claim_verify" /\ sel[v] = i

\* C2: no two live workers have the same non-null currentStripIndex.
C2_DistinctCurrentStrip ==
    \A w, v \in Workers :
        (w # v /\ Live(w) /\ Live(v) /\ cur[w] # Null) => cur[w] # cur[v]

\* C3: a worker in BUILDING or RESTOCKING with currentStripIndex = b has the
\* ledger row b 'assigned' to it, also while startNewMapArt or clearProject runs.
C3_HeldStripIsAssigned ==
    \A w \in Workers :
        (alive[w] /\ state[w] \in {"BUILDING", "RESTOCKING"} /\ cur[w] # Null)
            => cur[w] \in AssignedTo(w)

\* C4: once a worker has stopped after shutdown(), no strip remains 'assigned'
\* to it.
C4_StoppedHoldsNothing ==
    \A w \in Workers : WorkerStopped(w) => AssignedTo(w) = {}

\* C5: the releaseStrip write that shutdown() issues is applied to the ledger
\* before the worker process exits.
C5_ReleaseBeforeExit ==
    \A w \in Workers : ~alive[w] => pending[w] = Null

\* C6: a completed strip stays completed; in particular no releaseStrip is
\* applied to it after completeStrip.  (No clearProject or startNewMapArt runs
\* in the specification this is checked under.)
C6_CompletedIsFinal ==
    [][\A i \in DOMAIN strips :
          strips[i].status = "completed"
              => (i \in DOMAIN strips' /\ strips'[i].status = "completed")]_vars

\* C7: a completed strip has no cell with is_placed = 0 in its z-range.
C7_CompletedHasNoUnplaced ==
    \A i \in DOMAIN strips :
        (strips[i].status = "completed" /\ project # NoRow)
            => Placements(blocks, i, project.strip_width) = {}

\* the project row is active while strip rows or block rows are still missing
Intermediate ==
    /\ project # NoRow
    /\ project.is_active = 1
    /\ \/ Cardinality(DOMAIN strips) < project.total_strips
       \/ Cardinality(DOMAIN blocks) < NumCells

\* the positions at which a worker's next step is a ledger statement
LedgerPcs ==
    {"get_project", "claim_select", "claim_update", "claim_verify", "stats_p",
     "stats_c", "b_req_p", "b_req_b", "bcs_get_p", "bcs_get_b", "bcs_fin_p",
     "bcs_fin_b", "r_req_p", "r_req_b", "complete", "r_release"}

\* C8: no ledger statement of a worker runs against an intermediate state of
\* startNewMapArt.
C8_StartIsAtomic ==
    [][(\E w \in Workers : pc[w] \in LedgerPcs /\ pc'[w] # pc[w]) => ~Intermediate]_vars

\* ceil(a / b), by its defining property
CeilDiv(a, b) == CHOOSE q \in 0 .. a : q * b >= a /\ (q = 0 \/ (q - 1) * b < a)

\* C9: right after startNewMapArt(.., w) getCompletionStats reports no placed
\* block, pending = total = ceil(height / w) strips, none assigned, none
\* completed, and the project is active and not paused.
C9_StatsAfterStart ==
    last.op = "startNewMapArt" =>
        LET st == Stats(project, blocks, strips)
        IN  /\ st.project # NoRow
            /\ st.placed_blocks = 0
            /\ st.pending_strips = st.total_strips
            /\ st.total_strips = CeilDiv(GridH, last.idx)
            /\ st.assigned_strips = 0
            /\ st.completed_strips = 0
            /\ st.project.is_active = 1
            /\ st.project.is_paused = 0

\* startNewMapArt has just run over a ledger that held placed blocks and an
\* assigned strip, with a width that does not divide the height
C9_Witness ==
    /\ last.op = "startNewMapArt"
    /\ last.prePlaced > 0 /\ last.preAssigned > 0
    /\ GridH % last.idx # 0

\* C10: claimStrip(w) run alone returns the lowest pending index and leaves
\* exactly that strip assigned to w; it returns null, and changes no row, iff
\* no strip is pending.
C10_ClaimLowestPending ==
    [][last'.op = "claimStrip" /\ last'.n # last.n =>
         /\ (last'.ret = Null) <=> (PendingStrips(strips) = {})
         /\ last'.ret = Null => strips' = strips
         /\ last'.ret # Null =>
              /\ last'.ret = Min(PendingStrips(strips))
              /\ strips' = [strips EXCEPT ![last'.ret] =
                               [status |-> "assigned", assigned_to |-> last'.user,
                                assigned_at |-> "ts"]]
         /\ project' = project /\ blocks' = blocks]_vars

\* claimStrip returned strip 1 because strip 0, held by another, was not pending
C10_Witness ==
    /\ last.op = "claimStrip"
    /\ last.ret = 1
    /\ 0 \in DOMAIN strips /\ strips[0].status = "assigned"
    /\ strips[0].assigned_to # last.user

\* C11: a claimStrip by another username right after releaseStrip(b), on a
\* strip that was assigned, returns non-null, and returns b when no strip below
\* b is pending.
C11_ReleasedIsReclaimable ==
    [][(/\ last.op = "releaseStrip" /\ last.preStatus = "assigned"
        /\ last'.op = "claimStrip" /\ last'.n = last.n + 1
        /\ last'.user # last.preHolder)
       => /\ last'.ret # Null
          /\ (\A j \in DOMAIN strips : j < last.idx => strips[j].status # "pending")
                => last'.ret = last.idx]_vars

\* bot2 has just been given the strip that bot1 held until the release before
C11_Witness ==
    /\ last.op = "claimStrip" /\ last.prevOp = "releaseStrip"
    /\ last.prevStatus = "assigned"
    /\ last.prevHolder # NoUser /\ last.prevHolder # last.user
    /\ last.ret = last.prevIdx

\* C12: releaseStrip(b) leaves row b pending with assigned_to and assigned_at
\* NULL whatever the row held, touches nothing else, and a second
\* releaseStrip(b) changes nothing.
C12_ReleaseResetsRow ==
    [][(last'.op = "releaseStrip" /\ last'.n = last.n + 1)
       => /\ DOMAIN strips' = DOMAIN strips
          /\ \A j \in DOMAIN strips :
                strips'[j] = IF j = last'.idx
                             THEN [status |-> "pending", assigned_to |-> NoUser,
                                   assigned_at |-> "NULL"]
                             ELSE strips[j]
          /\ project' = project /\ blocks' = blocks
          /\ (last.op = "releaseStrip" /\ last.idx = last'.idx) => strips' = strips]_vars

\* the second of two releases of the same strip, the first of which took it from
\* a holder
C12_Witness ==
    /\ last.op = "releaseStrip" /\ last.prevOp = "releaseStrip"
    /\ last.idx = last.prevIdx
    /\ last.prevStatus = "assigned" /\ last.preStatus = "pending"

\* C13: updateBlockPlaced(x, z) leaves the cell placed and every other row as it
\* was, and a second call for the same cell changes nothing.
C13_UpdateBlockPlacedIdempotent ==
    [][(last'.op = "updateBlockPlaced" /\ last'.n = last.n + 1)
       => /\ DOMAIN blocks' = DOMAIN blocks
          /\ \A c \in DOMAIN blocks :
                blocks'[c] = IF c = CellAt(last'.idx) THEN 1 ELSE blocks[c]
          /\ project' = project /\ strips' = strips
          /\ (last.op = "updateBlockPlaced" /\ last.idx = last'.idx) => blocks' = blocks]_vars

\* the second of two calls for the same existing cell
C13_Witness ==
    /\ last.op = "updateBlockPlaced" /\ last.prevOp = "updateBlockPlaced"
    /\ last.idx = last.prevIdx
    /\ CellAt(last.idx) \in DOMAIN blocks /\ blocks[CellAt(last.idx)] = 1

\* C15: with a project of strip width w, the strip rows are exactly
\* 0 .. ceil(height / w) - 1, and every unplaced cell (x, z) is returned by
\* getPlacementsForStrip for the strip floor(z / w) and for no other.
C15_CellInOneStrip ==
    (project # NoRow /\ last.op # "none") =>
        LET w == project.strip_width
        IN  /\ DOMAIN strips = 0 .. (CeilDiv(GridH, w) - 1)
            /\ DOMAIN blocks = Cells
            /\ \A c \in Cells :
                  blocks[c] = 0 =>
                     {i \in DOMAIN strips : c \in Placements(blocks, i, w)} = {c[2] \div w}

\* a project of more than one strip whose last row of cells, still unplaced, is
\* returned for the last strip
C15_Witness ==
    /\ last.op = "startNewMapArt"
    /\ Cardinality(DOMAIN strips) > 1
    /\ \E c \in DOMAIN blocks :
          /\ c[2] = GridH - 1
          /\ c \in Placements(blocks, Cardinality(DOMAIN strips) - 1, project.strip_width)

\* C14: a cell that is placed stays placed through every step of a worker and
\* through pause and continue; only the DELETE FROM blocks of clearProject
\* (alone or inside startNewMapArt) removes it.
C14_PlacedStaysPlaced ==
    [][(\E c \in DOMAIN blocks :
           blocks[c] = 1 /\ (c \notin DOMAIN blocks' \/ blocks'[c] = 0))
       => (cmd.at \in {"s_del_blocks", "c_del_blocks"} /\ cmd'.at # cmd.at)]_vars

\* a cell is placed although its strip is pending again, the worker that placed
\* it having released the strip
C14_Witness ==
    /\ project # NoRow
    /\ \E c \in DOMAIN blocks :
          /\ blocks[c] = 1
          /\ (c[2] \div project.strip_width) \in DOMAIN strips
          /\ strips[c[2] \div project.strip_width].status = "pending"
          /\ \E w \in Solo : ~shouldRun[w] /\ cur[w] = c[2] \div project.strip_width

\* the row getProjectState returns is absent, inactive or paused
HaltedRow == project = NoRow \/ project.is_active = 0 \/ project.is_paused = 1

\* the worker whose getProjectState returns in this step
ReadsProject(w) == pc[w] = "get_project" /\ pc'[w] # "get_project"

\* C16 as stated: a tick that finds the project absent, inactive or paused ends
\* with the worker IDLE and the placement engine paused, with no ledger write
\* and no further call in that tick.
C16_HaltedTickPausesEngine ==
    [][\A w \in Workers :
          (ReadsProject(w) /\ HaltedRow)
             => /\ state'[w] = "IDLE" /\ isPaused'[w]
                /\ pc'[w] \in {"tick", "done"}
                /\ ledger' = ledger /\ cur'[w] = cur[w]]_vars

\* C16 amended: such a tick ends with the worker IDLE; the placement engine is
\* paused when the worker was not IDLE before and its flag is left as it was
\* otherwise; there is no ledger write and no further call in that tick.
C16_HaltedTickIdles ==
    [][\A w \in Workers :
          (ReadsProject(w) /\ HaltedRow)
             => /\ state'[w] = "IDLE"
                /\ isPaused'[w] = (IF state[w] # "IDLE" THEN TRUE ELSE isPaused[w])
                /\ pc'[w] \in {"tick", "done"}
                /\ ledger' = ledger /\ cur'[w] = cur[w]]_vars

\* a worker that holds a strip has been idled by a paused project
C16_Witness ==
    \E w \in Solo :
        /\ state[w] = "IDLE" /\ isPaused[w] /\ cur[w] # Null
        /\ pc[w] = "tick"
        /\ project # NoRow /\ project.is_paused = 1

\* the worker whose getProjectState returns an active, unpaused project while it
\* is IDLE and holds a strip
Resumes(w) ==
    /\ ReadsProject(w) /\ ~HaltedRow
    /\ state[w] = "IDLE" /\ cur[w] # Null

\* a live worker idled while it holds a strip
PausedHolding(w) == Live(w) /\ state[w] = "IDLE" /\ cur[w] # Null

\* C17: a worker idled by a pause while it holds strip b keeps b assigned to it
\* in the ledger for as long as it idles, and on resume goes back to BUILDING
\* on b without calling claimStrip.
C17_PauseKeepsStrip ==
    [][\A w \in Workers :
          /\ PausedHolding(w) => cur[w] \in AssignedTo(w)
          /\ Resumes(w) => /\ state'[w] = "BUILDING" /\ cur'[w] = cur[w]
                           /\ ~isPaused'[w]
                           /\ pc'[w] = "b_req_p"]_vars

\* the top of the while loop as reached by w: the next wait, or the end of
\* mainLoop once shutdown() has cleared shouldRun
NextIteration(w) == IF shouldRun[w] THEN "tick" ELSE "done"

\* C18: when claimStrip has returned null the worker goes IDLE exactly when the
\* counts getCompletionStats returns are pending_strips = 0 and
\* assigned_strips = 0, and otherwise stays CLAIMING; either way mainLoop goes
\* on to its next iteration, and an iteration that finds the project running
\* and no strip held calls claimStrip.
C18_NullClaimThenStats ==
    [][\A w \in Workers :
          /\ (pc[w] = "claim_select" /\ pc'[w] # "claim_select"
                  /\ PendingStrips(strips) = {})
                => pc'[w] = "stats_p" /\ state'[w] = "CLAIMING" /\ cur'[w] = Null
          /\ (pc[w] = "claim_verify" /\ pc'[w] # "claim_verify"
                  /\ sel[w] \in DOMAIN strips /\ strips[sel[w]].assigned_to # w)
                => pc'[w] = "stats_p" /\ state'[w] = "CLAIMING" /\ cur'[w] = Null
          /\ (pc[w] = "stats_p" /\ pc'[w] # "stats_p" /\ project = NoRow)
                => pc'[w] = NextIteration(w) /\ state'[w] = "CLAIMING"
          /\ (pc[w] = "stats_c" /\ pc'[w] # "stats_c")
                => LET finished ==
                          /\ {i \in DOMAIN strips : strips[i].status = "pending"} = {}
                          /\ {i \in DOMAIN strips : strips[i].status = "assigned"} = {}
                   IN  /\ state'[w] = (IF finished THEN "IDLE" ELSE "CLAIMING")
                       /\ pc'[w] = NextIteration(w)
                       /\ cur'[w] = Null
          /\ (ReadsProject(w) /\ ~HaltedRow /\ cur[w] = Null)
                => pc'[w] = "claim_select" /\ state'[w] = "CLAIMING"]_vars

\* a worker that completed a strip earlier has gone IDLE, every strip being
\* completed, and waits for its next iteration
C18_Witness ==
    \E w \in Workers :
        /\ state[w] = "IDLE" /\ pc[w] = "tick" /\ cur[w] = Null
        /\ \E i \in DOMAIN got : w \in got[i]
        /\ \A i \in DOMAIN strips : strips[i].status = "completed"

\* C19: when restock returns false the worker calls releaseStrip on the strip
\* it holds, clears currentStripIndex, goes IDLE and waits out the cooldown
\* before its next iteration, so no claimStrip is issued until then; when
\* restock returns true the worker is BUILDING and still holds the strip.
C19_RestockOutcome ==
    [][\A w \in Workers :
          /\ (pc[w] = "restocking" /\ pc'[w] = "r_release")
                => cur'[w] = cur[w] /\ cur[w] # Null /\ ledger' = ledger
          /\ (pc[w] = "r_release" /\ pc'[w] # "r_release")
                => /\ DOMAIN strips' = DOMAIN strips
                   /\ \A i \in DOMAIN strips :
                         strips'[i] = IF i = cur[w]
                                      THEN [status |-> "pending", assigned_to |-> NoUser,
                                            assigned_at |-> "NULL"]
                                      ELSE strips[i]
                   /\ cur'[w] = Null /\ state'[w] = "IDLE"
                   /\ pc'[w] = "cooldown"
          /\ pc[w] = "cooldown"
                => /\ cur[w] = Null /\ state[w] = "IDLE"
                   /\ pc'[w] \in {"cooldown", NextIteration(w)}
          /\ (pc[w] = "restocking" /\ pc'[w] = NextIteration(w))
                => /\ state'[w] = "BUILDING"
                   /\ cur'[w] = cur[w] /\ cur[w] # Null
                   /\ ledger' = ledger]_vars

\* the worker waits out the cooldown, IDLE and holding nothing, the strip it
\* released being pending again
C19_Witness ==
    \E w \in Solo :
        /\ pc[w] = "cooldown" /\ shouldRun[w]
        /\ state[w] = "IDLE" /\ cur[w] = Null
        /\ \E i \in DOMAIN strips : strips[i].status = "pending"
        /\ CountStatus(strips, "assigned") = 0

\* C20: _hasMaterials(required) is true exactly when the inventory holds at
\* least the required count of every material in required; with a non-empty
\* requirement the BUILDING branch switches to RESTOCKING exactly when it is
\* false and runs a buildCurrentStrip pass otherwise.
C20_HasMaterials ==
    last.op = "BUILDING" =>
        LET enough == \A m \in DOMAIN last.required : last.count[m] >= last.required[m]
        IN  /\ last.has = enough
            /\ DOMAIN last.required # {} =>
                  last.ret = (IF enough THEN "buildCurrentStrip" ELSE "RESTOCKING")

\* two materials are required, the inventory covers one and not the other, and
\* the worker switches to RESTOCKING
C20_Witness ==
    /\ last.op = "BUILDING"
    /\ DOMAIN last.required = Materials
    /\ \E m \in Materials : last.count[m] >= last.required[m]
    /\ \E m \in Materials : last.count[m] < last.required[m]
    /\ ~last.has /\ last.ret = "RESTOCKING"

-----------------------------------------------------------------------------
(* Restocker.restock(requiredItems), run on its own: `last' holds the call's *)
(* locals.  The store has one column of chests per colour; what a chest      *)
(* visit yields is the world's choice.                                       *)

\* restockOrder and COLOR_MAP[colorKey].id, for the two colours of Materials
restockOrder == <<"white", "red">>
ItemId(colorName) == IF colorName = "white" THEN "white_carpet" ELSE "red_carpet"

\* for (let yOffset = 0; yOffset < 5; yOffset++)
ColumnHeight == 5

\* an item id that no colour of COLOR_MAP has
Stone == "stone"
AllItems == Materials \cup {Stone}
RestockInputs == UNION {[S -> 1 .. MaxCount] : S \in SUBSET AllItems}

\* needed[itemId], undefined when the key is absent
Needed(l, itemId) == IF itemId \in DOMAIN l.required THEN l.required[itemId] ELSE 0

InitRestock ==
    /\ project = NoRow /\ blocks = EmptyTable /\ strips = EmptyTable
    /\ InitWorkers /\ InitPanel
    /\ got = [i \in 0 .. (GridH - 1) |-> {}]
    /\ last \in {[op |-> "restock", at |-> "discard", required |-> r, held |-> h,
                  k |-> 1, y |-> 0, found |-> 0, all |-> TRUE,
                  withdrawn |-> [m \in AllItems |-> 0],
                  visited |-> 0, open |-> 0, tried |-> {}, ret |-> "none"] :
                     r \in RestockInputs, h \in 0 .. MaxCount}

\* await this.discardInventory(): the goto is not caught; every stack is tossed
Restock_discard ==
    /\ last.op = "restock" /\ last.at = "discard"
    /\ \E ok \in BOOLEAN :
         last' = IF ok THEN [last EXCEPT !.at = "order", !.held = 0]
                 ELSE [last EXCEPT !.at = "threw"]
    /\ UNCHANGED <<ledger, wvars, cmd, nStarts, got>>

\* the head of for (const colorName of this.restockOrder), and return allItemsFound
Restock_color ==
    /\ last.op = "restock" /\ last.at = "order"
    /\ last' = IF last.k > Len(restockOrder)
               THEN [last EXCEPT !.at = "returned",
                                 !.ret = IF last.all THEN "true" ELSE "false"]
               ELSE IF Needed(last, ItemId(restockOrder[last.k])) = 0
               THEN [last EXCEPT !.k = last.k + 1]
               ELSE [last EXCEPT !.at = "chest", !.y = 0, !.found = 0, !.visited = 0,
                                 !.tried = last.tried \cup {ItemId(restockOrder[last.k])}]
    /\ UNCHANGED <<ledger, wvars, cmd, nStarts, got>>

\* a restock that gives up at the first material that falls short
ColumnDoneStopOnShortfall(l) ==
    IF l.found < Needed(l, ItemId(restockOrder[l.k]))
    THEN [l EXCEPT !.at = "order", !.k = Len(restockOrder) + 1, !.all = FALSE]
    ELSE [l EXCEPT !.at = "order", !.k = l.k + 1]

\* the code after the yOffset loop: if (amountFound < amountNeeded) allItemsFound = false
ColumnDone(l) ==
    [l EXCEPT !.at = "order", !.k = l.k + 1,
              !.all = l.all /\ ~(l.found < Needed(l, ItemId(restockOrder[l.k])))]

\* one pass of the yOffset loop: withdrawFromChest(chestPos, itemId, amountNeeded -
\* amountFound) inside try / catch { break }
Restock_chest ==
    /\ last.op = "restock" /\ last.at = "chest"
    /\ LET itemId == ItemId(restockOrder[last.k])
           count  == Needed(last, itemId) - last.found
       IN  IF ~(last.y < ColumnHeight) \/ last.found >= Needed(last, itemId)
           THEN last' = ColumnDone(last)
           ELSE \/ \* no chest block, or goto / openChest rejects: nothing was opened
                   last' = ColumnDone(last)
                \/ \* the chest is opened, n items are taken, the window is closed
                   \E n \in 0 .. count :
                     last' = [last EXCEPT !.y = last.y + 1, !.found = last.found + n,
                                          !.visited = last.visited + 1,
                                          !.held = last.held + n,
                                          !.withdrawn[itemId] = last.withdrawn[itemId] + n]
                \/ \* chestWindow.withdraw rejects after j items: the window stays open
                   \E j \in 0 .. (count - 1) :
                     last' = [ColumnDone(last) EXCEPT
                                          !.visited = last.visited + 1,
                                          !.open = last.open + 1,
                                          !.held = last.held + j,
                                          !.withdrawn[itemId] = last.withdrawn[itemId] + j]
    /\ UNCHANGED <<ledger, wvars, cmd, nStarts, got>>

NextRestock == Restock_discard \/ Restock_color \/ Restock_chest

SpecRestock == InitRestock /\ [][NextRestock]_vars

-----------------------------------------------------------------------------
(* StripPlacer._groupIntoFourRowBatches, applied to every set of unplaced   *)
(* cells over MaxRows rows of two cells.                                    *)

MaxRows == 5
BatchCells == (0 .. (MaxRows - 1)) \X (0 .. 1)

InitBatches ==
    /\ project = NoRow /\ blocks = EmptyTable /\ strips = EmptyTable
    /\ InitWorkers /\ InitPanel
    /\ got = [i \in 0 .. (GridH - 1) |-> {}]
    /\ last \in {[op |-> "input", cells |-> P, ret |-> << >>] : P \in SUBSET BatchCells}

Batches_call ==
    /\ last.op = "input"
    /\ last' = [last EXCEPT !.op = "batches", !.ret = GroupIntoFourRowBatches(last.cells)]
    /\ UNCHANGED <<ledger, wvars, cmd, nStarts, got>>

NextBatches == Batches_call

SpecBatches == InitBatches /\ [][NextBatches]_vars

RECURSIVE Flatten(_)
Flatten(B) == IF B = << >> THEN << >> ELSE Head(B) \o Flatten(Tail(B))

-----------------------------------------------------------------------------
(* StripPlacer.findSafeStandPosForBatch, applied to every batch of the band *)
(* z = 0 of a map MapLen cells long and two cells deep, in a world where up *)
(* to MaxBlocked positions of the map (one for every two cells of its       *)
(* length) cannot be stood on.                                              *)

MapLen == 6
MaxBlocked == MapLen \div 2

\* mapArtOffsets.start (x and z) and offsets.end scaled to the map of the model
mapArtOrigin == <<63, 575>>
EndOffset == <<0 - (MapLen - 1), 0 - 1>>
minBound == <<mapArtOrigin[1] + EndOffset[1], mapArtOrigin[2] + EndOffset[2]>>
maxBound == mapArtOrigin

\* every world position inside the bounds, and the cells of the band z = 0
MapPositions == (minBound[1] .. maxBound[1]) \X (minBound[2] .. maxBound[2])
BandCells == {<<x, 0>> : x \in 0 .. (MapLen - 1)}
BlockedSets == {K \in SUBSET MapPositions : Cardinality(K) <= MaxBlocked}

NoPos == << >>

\* this.mapArtOrigin.offset(-placement.x, 0, -placement.z)
TargetPos(p) == <<mapArtOrigin[1] - p[1], mapArtOrigin[2] - p[2]>>

MinWorldX(batch) == mapArtOrigin[1] - Max({p[1] : p \in batch})
MaxWorldX(batch) == mapArtOrigin[1] - Min({p[1] : p \in batch})
MinWorldZ(batch) == mapArtOrigin[2] - Max({p[2] : p \in batch})
MaxWorldZ(batch) == mapArtOrigin[2] - Min({p[2] : p \in batch})

\* the two loops that fill candidates, in push order
BatchCandidates(batch) ==
    LET nx == MaxWorldX(batch) - MinWorldX(batch) + 3
        nz == MaxWorldZ(batch) - MinWorldZ(batch) + 3
    IN  [k \in 1 .. (2 * nx) |->
            <<MinWorldX(batch) - 1 + ((k - 1) \div 2),
              IF k % 2 = 1 THEN MinWorldZ(batch) - 1 ELSE MaxWorldZ(batch) + 1>>]
        \o
        [k \in 1 .. (2 * nz) |->
            <<IF k % 2 = 1 THEN MinWorldX(batch) - 1 ELSE MaxWorldX(batch) + 1,
              MinWorldZ(batch) - 1 + ((k - 1) \div 2)>>]

\* candidate.x >= this.minBound.x && ... && candidate.z <= this.maxBound.z
WithinBounds(c) ==
    /\ c[1] >= minBound[1] /\ c[1] <= maxBound[1]
    /\ c[2] >= minBound[2] /\ c[2] <= maxBound[2]

\* a footprint test that every position passes
OccupiableAlways(c, blocked) == TRUE

\* footBlock && headBlock && (foot is empty or a carpet) && head is empty
Occupiable(c, blocked) == c \notin blocked

\* candidate.distanceTo(targetPos) <= 4.5, both at the height of the origin:
\* twice the radius is 9, so 4 * (dx^2 + dz^2) <= 9^2
TwiceReach == 9
AllReachable(c, batch) ==
    \A p \in batch :
        LET dx == c[1] - TargetPos(p)[1]
            dz == c[2] - TargetPos(p)[2]
        IN  4 * (dx * dx + dz * dz) <= TwiceReach * TwiceReach

\* for (const candidate of candidates) { ... if (allReachable) return candidate } return null
RECURSIVE FirstStandPos(_, _, _, _)
FirstStandPos(cands, k, batch, blocked) ==
    IF k > Len(cands) THEN NoPos
    ELSE IF /\ WithinBounds(cands[k]) /\ Occupiable(cands[k], blocked)
            /\ AllReachable(cands[k], batch)
         THEN cands[k]
         ELSE FirstStandPos(cands, k + 1, batch, blocked)

FindSafeStandPosForBatch(batch, blocked) ==
    IF batch = {} THEN NoPos
    ELSE FirstStandPos(BatchCandidates(batch), 1, batch, blocked)

InitStandPos ==
    /\ project = NoRow /\ blocks = EmptyTable /\ strips = EmptyTable
    /\ InitWorkers /\ InitPanel
    /\ got = [i \in 0 .. (GridH - 1) |-> {}]
    /\ last \in {[op |-> "input", batch |-> B, blocked |-> K, ret |-> NoPos] :
                     B \in SUBSET BandCells, K \in BlockedSets}

StandPos_call ==
    /\ last.op = "input"
    /\ last' = [last EXCEPT !.op = "standPos",
                            !.ret = FindSafeStandPosForBatch(last.batch, last.blocked)]
    /\ UNCHANGED <<ledger, wvars, cmd, nStarts, got>>

NextStandPos == StandPos_call

SpecStandPos == InitStandPos /\ [][NextStandPos]_vars

\* the contract of findSafeStandPosForBatch for a given reading of "within
\* bounds": the result is on the ring one cell outside the bounding box of the
\* batch, within bounds, not blocked, within 4.5 of every cell; no qualifying
\* candidate comes before it in scan order; null exactly when none qualifies
StandPosContract(inBounds(_)) ==
    LET B == last.batch
        r == last.ret
        xs == {TargetPos(p)[1] : p \in B}
        zs == {TargetPos(p)[2] : p \in B}
        onRing(c) == /\ c[1] >= Min(xs) - 1 /\ c[1] <= Max(xs) + 1
                     /\ c[2] >= Min(zs) - 1 /\ c[2] <= Max(zs) + 1
                     /\ \/ c[1] = Min(xs) - 1 \/ c[1] = Max(xs) + 1
                        \/ c[2] = Min(zs) - 1 \/ c[2] = Max(zs) + 1
        near(c) == \A p \in B :
                     4 * ((c[1] - TargetPos(p)[1]) * (c[1] - TargetPos(p)[1])
                          + (c[2] - TargetPos(p)[2]) * (c[2] - TargetPos(p)[2])) <= 81
        good(c) == onRing(c) /\ inBounds(c) /\ c \notin last.blocked /\ near(c)
        cands == BatchCandidates(B)
    IN  IF B = {} THEN r = NoPos
        ELSE /\ r # NoPos =>
                  /\ good(r)
                  /\ \E k \in 1 .. Len(cands) :
                        /\ cands[k] = r
                        /\ \A j \in 1 .. (k - 1) : ~good(cands[j])
             /\ r = NoPos <=> ~\E k \in 1 .. Len(cands) : good(cands[k])
             /\ \A k \in 1 .. Len(cands) : onRing(cands[k])

\* the world positions of the band z = 0, over the whole length of the map
InBand(c) ==
    /\ c[1] >= mapArtOrigin[1] - (MapLen - 1) /\ c[1] <= mapArtOrigin[1]
    /\ c[2] = mapArtOrigin[2]

\* the world positions of the map art, from origin + offsets.end to the origin
InMapArt(c) ==
    /\ c[1] >= mapArtOrigin[1] - (MapLen - 1) /\ c[1] <= mapArtOrigin[1]
    /\ c[2] >= mapArtOrigin[2] - 1 /\ c[2] <= mapArtOrigin[2]

\* C23 (as stated): findSafeStandPosForBatch returns the first candidate in scan
\* order that is on the ring around the batch, within the band's world bounds,
\* occupiable and within 4.5 of every cell, and null iff there is none.
C23_StandPosWithinBand ==
    last.op = "standPos" => StandPosContract(InBand)

\* C23 (amended): the same with the bounds of the whole map art in place of the
\* band's: a returned position may lie in a neighbouring band.
C23_StandPosWithinMapArt ==
    last.op = "standPos" => StandPosContract(InMapArt)

\* a blocked candidate and an out-of-reach candidate are passed over and a later
\* one, outside the band, is returned
C23_Witness ==
    /\ last.op = "standPos"
    /\ last.ret # NoPos
    /\ ~InBand(last.ret)
    /\ \E k \in 1 .. Len(BatchCandidates(last.batch)) :
          /\ BatchCandidates(last.batch)[k] \in last.blocked
          /\ \E j \in (k + 1) .. Len(BatchCandidates(last.batch)) :
                 BatchCandidates(last.batch)[j] = last.ret
    /\ Cardinality(last.batch) > 1

\* no candidate qualifies and null is returned
C23_WitnessNull ==
    /\ last.op = "standPos" /\ last.batch # {} /\ last.ret = NoPos

-----------------------------------------------------------------------------
\* C24: when findSafeStandPosForBatch finds no stand position, buildCurrentStrip
\* still attempts the cells of the batch one by one: at the head of the batch
\* loop a batch never leaves the pass with none of its cells attempted, unless
\* the engine was stopped.
C24_NoStandPosFallsBack ==
    [][\A w \in Workers :
          (alive[w] /\ pc[w] = "bcs_batch" /\ ~isStopped[w])
              => batches'[w] = batches[w]]_vars

-----------------------------------------------------------------------------
(* StripPlacer.placeBatchFromPosition for one batch, attempt by attempt:    *)
(* `last' holds the locals of the call and the bot's sneak control state,   *)
(* `blocks' is the ledger table.  The pause wait and the stop check before  *)
(* each cell are those of Cell_head and are left out here.                  *)

\* const maxRetries = 3
maxRetries == 3

INTERACTABLE_BLOCKS ==
    {"chest", "trapped_chest", "ender_chest", "barrel", "furnace", "blast_furnace",
     "smoker", "dispenser", "dropper", "hopper", "crafting_table", "enchanting_table",
     "anvil", "chipped_anvil", "damaged_anvil", "brewing_stand", "beacon", "note_block",
     "jukebox", "loom", "cartography_table", "fletching_table", "grindstone",
     "smithing_table", "stonecutter"}

\* the block names that include 'shulker_box', among those the model draws from
ShulkerBoxes == {"red_shulker_box"}

\* the blocks the world may have below a target
ReferenceBlocks == {"stone", "chest", "red_shulker_box"}

\* needsSneakToPlaceOn(block), for a block that exists
NeedsSneakToPlaceOn(name) == name \in INTERACTABLE_BLOCKS \/ name \in ShulkerBoxes

InitPlace ==
    /\ project = NoRow /\ strips = EmptyTable
    /\ blocks = [c \in Cells |-> 0]
    /\ InitWorkers /\ InitPanel
    /\ got = [i \in 0 .. (GridH - 1) |-> {}]
    /\ last \in {[op |-> "placeBatch", at |-> "goto", batch |-> SortCells(P),
                  retryCount |-> 0, tries |-> 0, ref |-> "none", shouldSneak |-> FALSE,
                  sneak |-> FALSE, failedAt |-> "none", skipped |-> {}] :
                     P \in SUBSET Cells \ {{}}}

\* await this.bot.pathfinder.goto(new GoalBlock(...)), not inside any try
Place_goto ==
    /\ last.op = "placeBatch" /\ last.at = "goto"
    /\ \E ok \in BOOLEAN :
         last' = [last EXCEPT !.at = IF ok THEN "cell" ELSE "threw"]
    /\ UNCHANGED <<ledger, wvars, cmd, nStarts, got>>

\* for (const placement of batch) { ... let retryCount = 0; while (retryCount < maxRetries)
Place_cell ==
    /\ last.op = "placeBatch" /\ last.at = "cell"
    /\ last' = IF last.batch = << >> THEN [last EXCEPT !.at = "returned"]
               ELSE [last EXCEPT !.at = "try", !.retryCount = 0, !.tries = 0,
                                 !.failedAt = "none"]
    /\ UNCHANGED <<ledger, wvars, cmd, nStarts, got>>

\* break: the for loop goes to the next placement
NextPlacement(l) == [l EXCEPT !.at = "cell", !.batch = Tail(l.batch)]

\* a catch block that gives up after one attempt more than maxRetries
AttemptFailedLate(l, where) ==
    IF l.retryCount + 1 >= maxRetries + 1
    THEN [NextPlacement(l) EXCEPT !.retryCount = l.retryCount + 1, !.failedAt = where,
                                  !.skipped = l.skipped \cup {Head(l.batch)}]
    ELSE [l EXCEPT !.retryCount = l.retryCount + 1, !.failedAt = where, !.at = "backoff"]

\* catch (err) { retryCount++; if (retryCount >= maxRetries) log "Skipping" else
\* await waitForTicks(10) }, then the while condition
AttemptFailed(l, where) ==
    IF l.retryCount + 1 >= maxRetries
    THEN [NextPlacement(l) EXCEPT !.retryCount = l.retryCount + 1, !.failedAt = where,
                                  !.skipped = l.skipped \cup {Head(l.batch)}]
    ELSE [l EXCEPT !.retryCount = l.retryCount + 1, !.failedAt = where, !.at = "backoff"]

\* the try block up to placeBlock: lookAt, the block that is already right (then
\* updateBlockPlaced and break), dig, the item, equip, the reference block, sneak
Place_try ==
    /\ last.op = "placeBatch" /\ last.at = "try"
    /\ LET l == [last EXCEPT !.tries = last.tries + 1, !.ref = "none",
                             !.shouldSneak = FALSE]
       IN  \/ \* the block is already there and the ledger records it
              /\ blocks' = UpdateBlockPlaced(blocks, Head(last.batch))
              /\ last' = NextPlacement(l)
           \/ \* lookAt, updateBlockPlaced, dig or equip rejects, or the item or the
              \* reference block is missing
              /\ blocks' = blocks
              /\ last' = AttemptFailed(l, "before")
           \/ \* ready to place on the reference block
              \E name \in ReferenceBlocks :
                /\ blocks' = blocks
                /\ last' = [l EXCEPT !.at = "placeBlock", !.ref = name,
                                     !.shouldSneak = NeedsSneakToPlaceOn(name),
                                     !.sneak = IF NeedsSneakToPlaceOn(name) THEN TRUE
                                               ELSE last.sneak]
    /\ UNCHANGED <<project, strips, wvars, cmd, nStarts, got>>

\* a placeBlock whose sneak is released only when it succeeds
Place_placeBlockNoFinally ==
    /\ last.op = "placeBatch" /\ last.at = "placeBlock"
    /\ \E ok \in BOOLEAN :
         last' = IF ok
                 THEN [last EXCEPT !.at = "record",
                                   !.sneak = IF last.shouldSneak THEN FALSE ELSE last.sneak]
                 ELSE AttemptFailed(last, "placeBlock")
    /\ UNCHANGED <<ledger, wvars, cmd, nStarts, got>>

\* try { await this.bot.placeBlock(...) } finally { if (shouldSneak)
\* setControlState('sneak', false) }
Place_placeBlock ==
    /\ last.op = "placeBatch" /\ last.at = "placeBlock"
    /\ \E ok \in BOOLEAN :
         LET l == [last EXCEPT !.sneak = IF last.shouldSneak THEN FALSE ELSE last.sneak]
         IN  last' = IF ok THEN [l EXCEPT !.at = "record"]
                     ELSE AttemptFailed(l, "placeBlock")
    /\ UNCHANGED <<ledger, wvars, cmd, nStarts, got>>

\* await this.db.updateBlockPlaced(placement.x, placement.z); break
Place_record ==
    /\ last.op = "placeBatch" /\ last.at = "record"
    /\ \/ /\ blocks' = UpdateBlockPlaced(blocks, Head(last.batch))
          /\ last' = NextPlacement(last)
       \/ /\ blocks' = blocks
          /\ last' = AttemptFailed(last, "record")
    /\ UNCHANGED <<project, strips, wvars, cmd, nStarts, got>>

\* else await this.bot.waitForTicks(10)
Place_backoff ==
    /\ last.op = "placeBatch" /\ last.at = "backoff"
    /\ last' = [last EXCEPT !.at = "try"]
    /\ UNCHANGED <<ledger, wvars, cmd, nStarts, got>>

NextPlace ==
    \/ Place_goto \/ Place_cell \/ Place_try \/ Place_placeBlock \/ Place_record
    \/ Place_backoff

SpecPlace == InitPlace /\ [][NextPlace]_vars

\* C25: a cell is attempted at most 3 times; a failed attempt that is not the
\* third is followed by the backoff on the same cell; the third failure skips
\* the cell with is_placed still 0 and the engine goes on to the next cell of
\* the batch.
C25_ThreeAttemptsThenSkip ==
    [][(last.op = "placeBatch")
          => /\ last'.tries <= 3
             /\ last'.retryCount = last.retryCount + 1
                  => IF last'.retryCount = 3
                     THEN /\ last.tries = 3 \/ last'.tries = 3
                          /\ last'.batch = Tail(last.batch)
                          /\ blocks' = blocks
                          /\ blocks[Head(last.batch)] = 0
                          /\ last'.at = "cell"
                     ELSE /\ last'.batch = last.batch
                          /\ last'.at = "backoff"]_vars

\* after a skipped cell the engine is placing the next cell of the batch
C25_Witness ==
    /\ last.op = "placeBatch" /\ last.at = "placeBlock"
    /\ last.skipped # {}
    /\ \A c \in last.skipped : blocks[c] = 0

\* C28: sneak is on only while placeBlock runs on an interactive block below the
\* target; it is off after every attempt, successful or not.
C28_SneakOnlyDuringPlaceBlock ==
    last.op = "placeBatch" =>
        /\ last.sneak => /\ last.at = "placeBlock"
                         /\ \/ last.ref \in INTERACTABLE_BLOCKS
                            \/ last.ref = "red_shulker_box"
        /\ last.at # "placeBlock" => ~last.sneak

\* placeBlock on a chest threw, and the bot is not sneaking in the backoff
C28_Witness ==
    /\ last.op = "placeBatch" /\ last.at = "backoff"
    /\ last.failedAt = "placeBlock" /\ last.ref = "chest"
    /\ ~last.sneak

-----------------------------------------------------------------------------
\* C26: no gameplay-layer failure propagates out of mainLoop: a step of the
\* navigation in placeBatchFromPosition or of restock (discardInventory, the
\* chest visits) never ends the worker's loop.
C26_GameplayFailureKeepsLoop ==
    [][\A w \in Workers :
          (alive[w] /\ pc[w] \in {"bcs_goto", "bcs_place", "restocking"})
              => pc'[w] # "crashed"]_vars

\* C27: a ledger call whose promise rejects does not end the worker's loop: no
\* step of a ledger statement leaves mainLoop dead.
C27_LedgerFailureKeepsLoop ==
    [][\A w \in Workers :
          (alive[w] /\ pc[w] \in LedgerPcs) => pc'[w] # "crashed"]_vars

-----------------------------------------------------------------------------
\* C29: once stop() was called (shutdown, which also clears shouldRun), the
\* worker starts no further placement and a buildCurrentStrip pass in progress
\* does not return true, also when stop() came while mainLoop was awaiting a
\* ledger call between two passes.
C29_StopEndsPass ==
    [][\A w \in Workers :
          (alive[w] /\ ~shouldRun[w])
              => /\ pc[w] = "bcs_cell" => pc'[w] # "bcs_place"
                 /\ pc[w] = "bcs_fin_b" => pc'[w] # "complete"]_vars

-----------------------------------------------------------------------------
(* One worker on a project of a single band as deep as the grid, while the  *)
(* operator pauses and continues it.  `last' counts, per worker, the        *)
(* placement actions since the pause flag was last set: the one in progress *)
(* when it was set and every one started after.                             *)

NoPlacements == [w \in Solo |-> 0]

InitBand ==
    /\ project = ProjectRow(GridH)
    /\ blocks = [c \in Cells |-> 0]
    /\ strips = [i \in 0 .. (TotalStrips(GridH) - 1) |-> NewStrip]
    /\ InitWorkers /\ InitPanel
    /\ got = [i \in 0 .. (GridH - 1) |-> {}]
    /\ last = [op |-> "running", placements |-> NoPlacements]

Band_pause ==
    /\ SetPaused
    /\ last' = [op |-> "paused",
                placements |-> [w \in Solo |-> IF pc[w] = "bcs_place" THEN 1 ELSE 0]]
    /\ UNCHANGED <<cmd, nStarts, got>>

Band_continue ==
    /\ SetResumed
    /\ last' = [op |-> "running", placements |-> NoPlacements]
    /\ UNCHANGED <<cmd, nStarts, got>>

Band_cellHead(w) ==
    /\ Cell_headStep(w)
    /\ last' = IF last.op = "paused" /\ pc'[w] = "bcs_place"
               THEN [last EXCEPT !.placements[w] = @ + 1]
               ELSE last
    /\ UNCHANGED <<cmd, nStarts, got>>

NextBand ==
    \/ \E w \in Solo :
        \/ StartDelay(w) \/ Tick(w) \/ GetProject(w)
        \/ ClaimStrip_select(w) \/ ClaimStrip_update(w) \/ ClaimStrip_verify(w)
        \/ Stats_project(w) \/ Stats_counts(w)
        \/ Required_project(w) \/ Required_blocks(w)
        \/ Build_project(w) \/ Build_blocks(w)
        \/ Batch_head(w) \/ Batch_goto(w) \/ Band_cellHead(w) \/ Cell_place(w)
        \/ Remaining_project(w) \/ Remaining_blocks(w)
        \/ Complete(w)
        \/ RestockRequired_project(w) \/ RestockRequired_blocks(w)
        \/ Restock(w) \/ Restock_release(w) \/ Cooldown(w)
    \/ Band_pause \/ Band_continue

SpecBand == InitBand /\ [][NextBand]_vars

\* C30: after setPaused(true) a worker inside a buildCurrentStrip pass performs
\* at most one further placement action (the one in progress, or else the next
\* one) and places nothing more while the project stays paused.
C30_PauseSuspendsPass ==
    last.op = "paused" => \A w \in Solo : last.placements[w] <= 1

-----------------------------------------------------------------------------
\* the items restock has a store for, and the place of an item in restockOrder
StoredItems == {ItemId(restockOrder[i]) : i \in 1 .. Len(restockOrder)}
OrderIndex(m) == CHOOSE i \in 1 .. Len(restockOrder) : ItemId(restockOrder[i]) = m
TotalWithdrawn(l) == l.withdrawn["white_carpet"] + l.withdrawn["red_carpet"] + l.withdrawn["stone"]

\* C31: restock empties the inventory before any withdrawal (what the bot holds
\* once a chest was visited is what this call withdrew), visits only required
\* materials, in the order of restockOrder, and when it returns it has attempted
\* every required material of restockOrder, whatever fell short before.
C31_DiscardThenFixedOrder ==
    [][(last.op = "restock")
          => /\ (last'.at \in {"order", "chest", "returned"})
                    => last'.held = TotalWithdrawn(last')
             /\ (last'.tried # {} \/ TotalWithdrawn(last') > 0)
                    => last'.at \in {"order", "chest", "returned"}
             /\ last'.tried \subseteq (DOMAIN last.required \cap StoredItems)
             /\ \A m \in last'.tried \ last.tried :
                    \A n \in last.tried : OrderIndex(n) < OrderIndex(m)
             /\ last.tried \subseteq last'.tried
             /\ last'.at = "returned"
                    => last'.tried = DOMAIN last.required \cap StoredItems]_vars

\* white fell short, red was still visited and filled, restock returned false
C31_Witness ==
    /\ last.op = "restock" /\ last.at = "returned" /\ last.ret = "false"
    /\ "white_carpet" \in DOMAIN last.required /\ "red_carpet" \in DOMAIN last.required
    /\ last.withdrawn["white_carpet"] < last.required["white_carpet"]
    /\ last.withdrawn["red_carpet"] = last.required["red_carpet"]
    /\ last.tried = {"white_carpet", "red_carpet"}

-----------------------------------------------------------------------------
\* C32: for each required material restock opens at most 5 containers, never
\* withdraws more than the requested count, opens no container once the count
\* is reached, and leaves no container open, whatever happened in it.
C32_ColumnScanClosesChests ==
    [][(last.op = "restock")
          => /\ last'.visited <= 5
             /\ \A m \in AllItems :
                    last'.withdrawn[m] <= (IF m \in DOMAIN last.required
                                           THEN last.required[m] ELSE 0)
             /\ last'.visited > last.visited
                    => last.found < last.required[ItemId(restockOrder[last.k])]
             /\ last'.open = 0]_vars

-----------------------------------------------------------------------------
(* The commands of run.js, each run in a process of its own, next to the   *)
(* calls of the control panel on the same ledger.                          *)

\* run.js shutdown(): childProcesses.forEach(kill), then process.exit(0); the
\* process ends inside the call whatever the list holds
ShutdownExits == TRUE

\* run.js 'clear': shutdown(); db = new DatabaseManager; await db.init();
\* await db.clearProject() -- what follows shutdown() runs only if it returns
Cli_clear ==
    /\ last.n < MaxOps
    /\ IF ShutdownExits
       THEN UNCHANGED <<project, blocks, strips>>
       ELSE project' = NoRow /\ blocks' = EmptyTable /\ strips' = EmptyTable
    /\ last' = Did("run.js clear", NoUser, Null, Null)
    /\ UNCHANGED <<wvars, cmd, nStarts, got>>

NextCli ==
    \/ Seq_startNewMapArt \/ Seq_clearProject \/ Seq_setPaused
    \/ Seq_claimStrip \/ Seq_releaseStrip \/ Seq_completeStrip
    \/ Seq_updateBlockPlaced
    \/ Cli_clear

SpecCli == InitLedger /\ [][NextCli]_vars

\* C33: after the clear command, of the control panel (clearProject) or of
\* run.js, the ledger holds no project, block or strip row and getProjectState
\* returns no project.
C33_ClearEmptiesLedger ==
    last.op \in {"clearProject", "run.js clear"}
        => /\ project = NoRow
           /\ blocks = EmptyTable
           /\ strips = EmptyTable

-----------------------------------------------------------------------------
(* The pool at work on an active, unpaused project with no signal sent:    *)
(* one or two workers were forked (the other usernames have no process).   *)
(* `last' names the band whose restock always returns false, or Null when  *)
(* every restock returns true.  Navigation resolves; a batch may find no   *)
(* stand position and a cell may be skipped after three failed attempts,   *)
(* but not forever.                                                        *)

Bands == 0 .. (TotalStrips(width) - 1)

InitFair ==
    /\ project = ProjectRow(width)
    /\ blocks = [c \in Cells |-> 0]
    /\ strips = [i \in Bands |-> NewStrip]
    /\ pc = [w \in Workers |-> "start_delay"]
    /\ state = [w \in Workers |-> "IDLE"]
    /\ cur = [w \in Workers |-> Null]
    /\ shouldRun = [w \in Workers |-> TRUE]
    /\ \E pool \in {Solo, Pair} : alive = [w \in Workers |-> w \in pool]
    /\ isPaused = [w \in Workers |-> FALSE]
    /\ isStopped = [w \in Workers |-> FALSE]
    /\ sel = [w \in Workers |-> Null]
    /\ pw = [w \in Workers |-> Null]
    /\ req = [w \in Workers |-> 0]
    /\ inv = [w \in Workers |-> 0]
    /\ batches = [w \in Workers |-> << >>]
    /\ pending = [w \in Workers |-> Null]
    /\ InitPanel
    /\ got = [i \in 0 .. (GridH - 1) |-> {}]
    /\ \E b \in Bands \cup {Null} : last = [op |-> "pool", band |-> b]

\* restock(required) returns false for the band named by `last', true otherwise
Fair_restock(w) ==
    /\ Restock(w)
    /\ pc'[w] = IF cur[w] = last.band THEN "r_release" ELSE LoopTop(w)

\* pathfinder.goto resolves
Fair_goto(w) == Batch_goto(w) /\ pc'[w] = "bcs_cell"

\* findSafeStandPosForBatch returned a position
FoundStandPos(w) == Batch_head(w) /\ pc'[w] = "bcs_goto"

\* the cell's row became is_placed = 1
PlacedCell(w) == Cell_place(w) /\ blocks' # blocks

FairLoop(w) ==
    \/ StartDelay(w) \/ Tick(w) \/ GetProject(w)
    \/ ClaimStrip_select(w) \/ ClaimStrip_update(w) \/ ClaimStrip_verify(w)
    \/ Stats_project(w) \/ Stats_counts(w)
    \/ Required_project(w) \/ Required_blocks(w)
    \/ Build_project(w) \/ Build_blocks(w)
    \/ Batch_head(w) \/ Fair_goto(w) \/ Cell_head(w) \/ Cell_place(w)
    \/ Remaining_project(w) \/ Remaining_blocks(w)
    \/ Complete(w)
    \/ RestockRequired_project(w) \/ RestockRequired_blocks(w)
    \/ Fair_restock(w) \/ Restock_release(w) \/ Cooldown(w)

NextFair == \E w \in Pair : FairLoop(w)

\* every worker's event loop keeps running its continuations; a stand position
\* is found and a placement succeeds if tried again and again
Fairness ==
    \A w \in Pair :
        /\ WF_vars(FairLoop(w))
        /\ SF_vars(FoundStandPos(w))
        /\ SF_vars(PlacedCell(w))

SpecFair == InitFair /\ [][NextFair]_vars /\ Fairness

\* C34: when one band's restock always fails and everything else succeeds,
\* every other band is eventually completed, whatever the size of the pool.
C34_OtherBandsCompleted ==
    \A i \in Bands :
        (last.band # Null /\ i # last.band) => <>(strips[i].status = "completed")


(* The same pool when nothing fails: every restock returns true, a stand   *)
(* position is found, navigation resolves and every cell is placed.        *)

InitAllSucceed == InitFair /\ last.band = Null

SucceedLoop(w) ==
    \/ StartDelay(w) \/ Tick(w) \/ GetProject(w)
    \/ ClaimStrip_select(w) \/ ClaimStrip_update(w) \/ ClaimStrip_verify(w)
    \/ Stats_project(w) \/ Stats_counts(w)
    \/ Required_project(w) \/ Required_blocks(w)
    \/ Build_project(w) \/ Build_blocks(w)
    \/ FoundStandPos(w) \/ Fair_goto(w) \/ Cell_head(w) \/ PlacedCell(w)
    \/ Remaining_project(w) \/ Remaining_blocks(w)
    \/ Complete(w)
    \/ RestockRequired_project(w) \/ RestockRequired_blocks(w)
    \/ Fair_restock(w)

NextAllSucceed == \E w \in Pair : SucceedLoop(w)

\* every worker's event loop keeps running its continuations
SpecAllSucceed ==
    InitAllSucceed /\ [][NextAllSucceed]_vars /\ \A w \in Pair : WF_vars(SucceedLoop(w))

AllCompleted == \A i \in Bands : strips[i].status = "completed"

\* C35, as stated: when everything succeeds, every band is eventually completed
\* and from then on every worker is IDLE and holds no band.
C35_CompletedThenIdle ==
    <>[](AllCompleted /\ \A w \in Workers : state[w] = "IDLE" /\ cur[w] = Null)

\* C35, amended: when everything succeeds, every band is eventually completed
\* and from then on every worker holds no band and is IDLE whenever it waits at
\* the top of its loop; during the claimStrip and getCompletionStats calls of
\* each iteration its state is CLAIMING.
C35_CompletedThenIdleBetweenPolls ==
    <>[](/\ AllCompleted
         /\ \A w \in Workers :
              /\ cur[w] = Null
              /\ state[w] \in {"IDLE", "CLAIMING"}
              /\ pc[w] \in {"tick", "get_project"} => state[w] = "IDLE")

C35_Witness ==
    /\ last.op = "pool" /\ last.band = Null
    /\ AllCompleted
    /\ \A w \in Pair : alive[w] /\ pc[w] = "tick" /\ state[w] = "IDLE" /\ cur[w] = Null


-----------------------------------------------------------------------------
\* the positions of mainLoop inside StripPlacer.buildCurrentStrip
BuildPcs == {"bcs_get_p", "bcs_get_b", "bcs_batch", "bcs_goto", "bcs_cell", "bcs_place",
             "bcs_fin_p", "bcs_fin_b"}

\* C36: buildCurrentStrip is never entered with the engine's isPaused flag set,
\* and the flag stays clear through the pass, so neither pause wait of the
\* engine can hold the main loop.
C36_BuildNeverPaused ==
    \A w \in Solo : pc[w] \in BuildPcs => ~isPaused[w]

\* a pass is entered while the project row is paused again: the engine's flag
\* is clear, the worker read the row before the pause
C36_Witness ==
    \E w \in Solo :
        /\ pc[w] = "bcs_get_p" /\ state[w] = "BUILDING" /\ ~isPaused[w]
        /\ project # NoRow /\ project.is_paused = 1


-----------------------------------------------------------------------------
(* The launchers.  Every `node run.js <command>' is a process of its own   *)
(* with its own childProcesses list; the control panel is one process that *)
(* keeps its list between commands.  `last' holds the run.js processes     *)
(* that forked workers and are still running (by the command they ran) and *)
(* whether the control panel's list is non-empty.  Every launch forks one  *)
(* worker for each username of config/bots.json.                           *)

MaxRuns == 3

InitLaunch ==
    /\ project = NoRow /\ blocks = EmptyTable /\ strips = EmptyTable
    /\ InitWorkers /\ InitPanel
    /\ got = [i \in 0 .. (GridH - 1) |-> {}]
    /\ last = [op |-> "launch", runs |-> << >>, panel |-> "empty"]

\* db.startNewMapArt(imageSource, dither, imageData, mapArtOffsets.width)
LaunchStart ==
    \E w \in Widths :
        /\ project' = ProjectRow(w)
        /\ blocks' = InsertBlocksFrom(EmptyTable, 0)
        /\ strips' = InsertStripsFrom(EmptyTable, 0, TotalStrips(w))

\* run.js launchBots: forks a worker per botConfig and pushes it on the list of
\* this process; the list of a fresh process is empty and nothing else is tested
CliLaunchBots(l, command) == [l EXCEPT !.runs = Append(@, command)]

\* part_002 launchBots: returns when childProcesses.length > 0
PanelLaunchBots(l) == [l EXCEPT !.panel = "forked"]

\* run.js 'start': startNewMapArt, then launchBots
Cli_start ==
    /\ Len(last.runs) < MaxRuns
    /\ LaunchStart
    /\ last' = CliLaunchBots(last, "start")
    /\ UNCHANGED <<wvars, cmd, nStarts, got>>

\* run.js 'continue': returns without an active project; setPaused(false) when
\* paused, 'Project is already running.' otherwise; launchBots in both cases
Cli_continue ==
    /\ Len(last.runs) < MaxRuns
    /\ project # NoRow /\ project.is_active = 1
    /\ project' = [project EXCEPT !.is_paused = 0]
    /\ last' = CliLaunchBots(last, "continue")
    /\ UNCHANGED <<blocks, strips, wvars, cmd, nStarts, got>>

\* 'pause' of either surface: setPaused(true); the workers keep running
Cli_pause == Pause

\* SIGINT to one run.js process: shutdown() signals its children and exits
Cli_sigint ==
    /\ \E i \in 1 .. Len(last.runs) :
         last' = [last EXCEPT !.runs = SubSeq(@, 1, i - 1) \o SubSeq(@, i + 1, Len(@))]
    /\ UNCHANGED <<ledger, wvars, cmd, nStarts, got>>

\* control panel 'start': startNewMapArt, then launchBots
Panel_start ==
    /\ LaunchStart
    /\ last' = PanelLaunchBots(last)
    /\ UNCHANGED <<wvars, cmd, nStarts, got>>

\* control panel 'continue': returns unless the project is active and paused
Panel_continue ==
    /\ SetResumed
    /\ last' = PanelLaunchBots(last)
    /\ UNCHANGED <<cmd, nStarts, got>>

\* control panel 'exit' (and escape, q, C-c): shutdown() signals the children
\* and the panel exits; the next panel starts with an empty list
Panel_exit ==
    /\ last.panel = "forked"
    /\ last' = [last EXCEPT !.panel = "empty"]
    /\ UNCHANGED <<ledger, wvars, cmd, nStarts, got>>

NextLaunch ==
    \/ Cli_start \/ Cli_continue \/ Cli_pause \/ Cli_sigint
    \/ Panel_start \/ Panel_continue \/ Panel_exit

SpecLaunch == InitLaunch /\ [][NextLaunch]_vars

\* the live worker processes with username u
LiveWorkers(l, u) == Len(l.runs) + (IF l.panel = "forked" THEN 1 ELSE 0)

\* C37: whatever start and continue commands are given, each configured
\* username has at most one live worker process.
C37_OneWorkerPerUsername ==
    (last.op = "launch") => \A u \in Workers : LiveWorkers(last, u) <= 1


-----------------------------------------------------------------------------
(* One worker process and its connections (MinimalBot).  `last' holds the  *)
(* number of the connection in this.bot, its condition, whether the        *)
(* listeners of _attachEventListeners are still on it, the two flags, the   *)
(* pending timers, and the activations of mainLoop: each waits for ticks   *)
(* of the connection it named, or awaits a ledger call, or hangs because   *)
(* the tick listener of its wait was removed.  autoReconnect is on.        *)

MaxConns == 3

InitConn ==
    /\ project = ProjectRow(width)
    /\ blocks = [c \in Cells |-> 0]
    /\ strips = [i \in Bands |-> NewStrip]
    /\ InitWorkers /\ InitPanel
    /\ got = [i \in 0 .. (GridH - 1) |-> {}]
    /\ last = [op |-> "conn", gen |-> 1, link |-> "connecting", listeners |-> TRUE,
               isDisconnecting |-> FALSE, isReconnecting |-> FALSE,
               timers |-> 0, resets |-> 0, owed |-> FALSE, loops |-> << >>]

\* bot.removeAllListeners(): the tick listener of every pending waitForTicks of
\* connection g goes with the others, and that wait never resolves
RemoveAllListeners(loops, g) ==
    [i \in DOMAIN loops |->
        IF loops[i].at = "tick" /\ loops[i].bot = g
        THEN [loops[i] EXCEPT !.at = "hung"] ELSE loops[i]]

\* handleDisconnect(eventName)
HandleDisconnect(l) ==
    IF l.isDisconnecting \/ l.isReconnecting
    THEN l
    ELSE [l EXCEPT !.listeners = FALSE,
                   !.loops = RemoveAllListeners(@, l.gen),
                   !.isReconnecting = TRUE,
                   !.timers = @ + 1]

\* 'spawn' (once): await this.initialize(), which ends by calling this.mainLoop()
Conn_spawn ==
    /\ last.link = "connecting"
    /\ last' = [last EXCEPT !.link = "spawned",
                            !.loops = IF last.listeners
                                      THEN Append(@, [at |-> "tick", bot |-> last.gen])
                                      ELSE @]
    /\ UNCHANGED <<ledger, wvars, cmd, nStarts, got>>

\* 'error' on the connection of this.bot; the connection may go on
Conn_error ==
    /\ last.gen < MaxConns /\ last.link # "ended"
    /\ last' = IF last.listeners
               THEN HandleDisconnect([last EXCEPT !.owed = TRUE])
               ELSE [last EXCEPT !.owed = TRUE]
    /\ UNCHANGED <<ledger, wvars, cmd, nStarts, got>>

\* 'kicked'; the 'end' of the connection follows as its own event
Conn_kicked ==
    /\ last.gen < MaxConns /\ last.link = "spawned"
    /\ last' = IF last.listeners
               THEN HandleDisconnect([last EXCEPT !.owed = TRUE])
               ELSE [last EXCEPT !.owed = TRUE]
    /\ UNCHANGED <<ledger, wvars, cmd, nStarts, got>>

\* 'end': handled only if (!this._isReconnecting)
Conn_end ==
    /\ last.gen < MaxConns /\ last.link # "ended"
    /\ LET l == [last EXCEPT !.owed = TRUE, !.link = "ended"]
       IN  last' = IF last.listeners /\ ~last.isReconnecting
                   THEN HandleDisconnect(l) ELSE l
    /\ UNCHANGED <<ledger, wvars, cmd, nStarts, got>>

\* the timer of handleDisconnect fires: reconnect(), that is disconnect(true)
\* and _createBot()
Timer_reconnect ==
    /\ last.timers > 0 /\ last.gen < MaxConns
    /\ last' = [last EXCEPT !.timers = @ - 1,
                            !.isReconnecting = FALSE,
                            !.isDisconnecting = TRUE,
                            !.resets = @ + 1,
                            !.loops = RemoveAllListeners(@, last.gen),
                            !.gen = @ + 1,
                            !.link = "connecting",
                            !.listeners = TRUE,
                            !.owed = FALSE]
    /\ UNCHANGED <<ledger, wvars, cmd, nStarts, got>>

\* disconnect(true): setTimeout(() => { this._isDisconnecting = false; }, 1000)
Timer_reset ==
    /\ last.resets > 0
    /\ last' = [last EXCEPT !.resets = @ - 1, !.isDisconnecting = FALSE]
    /\ UNCHANGED <<ledger, wvars, cmd, nStarts, got>>

\* mainLoop: await this.bot.waitForTicks(...) resolves on a live connection
Loop_tick ==
    /\ \E i \in DOMAIN last.loops :
         /\ last.loops[i].at = "tick" /\ last.loops[i].bot = last.gen
         /\ last.link = "spawned"
         /\ last' = [last EXCEPT !.loops[i].at = "ledger"]
    /\ UNCHANGED <<ledger, wvars, cmd, nStarts, got>>

\* mainLoop: an awaited DatabaseManager call returns, whatever the connection
\* does, and the loop comes back to this.bot.waitForTicks(20) on the connection
\* that this.bot now names; on a connection still logging in, waitForTicks may
\* not be defined yet and the call throws
Loop_ledger ==
    /\ \E i \in DOMAIN last.loops :
         /\ last.loops[i].at = "ledger"
         /\ \E defined \in BOOLEAN :
              /\ ~defined => last.link = "connecting"
              /\ last' = [last EXCEPT !.loops[i] =
                             IF defined THEN [at |-> "tick", bot |-> last.gen]
                             ELSE [at |-> "threw", bot |-> last.gen]]
    /\ UNCHANGED <<ledger, wvars, cmd, nStarts, got>>

NextConn ==
    \/ Conn_spawn \/ Conn_error \/ Conn_kicked \/ Conn_end
    \/ Timer_reconnect \/ Timer_reset
    \/ Loop_tick \/ Loop_ledger

\* a timer that was set fires
SpecConn ==
    InitConn /\ [][NextConn]_vars /\ WF_vars(Timer_reconnect) /\ WF_vars(Timer_reset)

\* the activations of mainLoop that go on: awaiting a ledger call, or waiting
\* for ticks of the spawned connection of this.bot
Running(l) ==
    {i \in DOMAIN l.loops :
        \/ l.loops[i].at = "ledger"
        \/ l.loops[i].at = "tick" /\ l.loops[i].bot = l.gen /\ l.link = "spawned"}

\* C38: in one worker process at most one activation of mainLoop is running,
\* whatever disconnects and reconnects happen.
C38_OneMainLoop ==
    (last.op = "conn") => Cardinality(Running(last)) <= 1

\* C39: every 'end', 'kicked' or 'error' event on the current connection is
\* followed by a call of reconnect(), and at most one reconnect timer is pending.
C39_EventThenReconnect ==
    /\ (last.op = "conn" /\ last.owed) ~> (last.op = "conn" /\ ~last.owed)
    /\ [](last.op = "conn" => last.timers <= 1)

====
